---- MODULE Spec2Model ----
(***************************************************************************)
(* docpull: the per-host rate limiter (http/rate_limiter.py), the retrying *)
(* HTTP client (http/client.py) and the fetcher's main loop                 *)
(* (core/fetcher.py, pipeline/base.py), as state machines.                  *)
(*                                                                         *)
(* Time is a monotonic clock counted in ticks.  Delays are constructor     *)
(* arguments; the values below are powers of two so that the float         *)
(* arithmetic of the adaptive limiter (x * 2.0, x / 2.0) is exact on       *)
(* integers.  An Optional value is a sequence: <<>> is None, <<v>> is v.   *)
(***************************************************************************)
EXTENDS Integers, Sequences, FiniteSets, TLC

\* ---------------------------------------------------------------- bounds
NumTasks == 2
MaxTime == 2
MaxCount == 4
MaxUrls == 2
MaxFetches == 2
MaxListed == 2
NumCalls == 3
MaxRuns == 2

\* ------------------------------------------- configuration (constructor args)
default_delay == 2
default_concurrent == 2
min_delay == 1
max_delay == 8
backoff_factor == 2
success_threshold == 2
max_retries == 1
retry_base_delay == 1

RETRYABLE_STATUS_CODES == {429, 500, 502, 503, 504}

Tasks == 1..NumTasks

None == <<>>
Some(v) == <<v>>

Min(a, b) == IF a <= b THEN a ELSE b
Max(a, b) == IF a >= b THEN a ELSE b

\* dict.get(k, default)
Get(d, k, dflt) == IF k \in DOMAIN d THEN d[k] ELSE dflt

\* d[k] = v on a dict
Put(d, k, v) == [x \in DOMAIN d \cup {k} |-> IF x = k THEN v ELSE d[x]]

\* ------------------------------------------------------------------ URLs
\* A URL as urlparse sees it: the scheme, the host as written, the port as
\* written ("" when the URL has none) and the path.
Url(s, h, p, q) == [scheme |-> s, hostname |-> h, port |-> p, path |-> q]

URLs ==
    { Url("https", "example.com", "", "/a"),
      Url("https", "EXAMPLE.com", "", "/b"),
      Url("https", "example.com", "443", "/c") }

\* urlparse(url).netloc: the authority exactly as written in the URL.
Netloc(u) == IF u.port = "" THEN u.hostname ELSE u.hostname \o ":" \o u.port

\* PerHostRateLimiter._get_host
GetHost(u) == Netloc(u)

Hosts == {GetHost(u) : u \in URLs}

\* The per-host overrides a limiter may be constructed with.
NoOverride == [delay |-> None, concurrent |-> None]

\* host_configs as passed to the constructor: one host is overridden, the
\* others fall back to the defaults.
InitialHostConfigs == ("example.com" :> [delay |-> Some(1), concurrent |-> Some(1)])

VARIABLES
    adaptive,          \* isinstance(rate_limiter, AdaptiveRateLimiter)
    host_configs,      \* PerHostRateLimiter.host_configs
    semaphores,        \* _semaphores: host -> free permits
    last_request,      \* _last_request: host -> monotonic time
    lock,              \* _lock: {} when free, {t} when task t holds it
    success_counts,    \* _success_counts
    current_delays,    \* _current_delays
    now,               \* time.monotonic(); the clock has run max_delay ticks at Init
    pc,                \* where each task is in AsyncHttpClient.get
    url,               \* the url argument of get
    host,              \* limit(): host
    delay,             \* limit(): delay, read on entry
    attempt,           \* get(): attempt
    wake,              \* deadline of the asyncio.sleep a task is in
    status,            \* response.status of the response in hand (0: none)
    cl_over,           \* its Content-Length exceeds max_content_size
    body,              \* how reading its body ended
    result,            \* how the last get ended
    requests,          \* requests issued by the current get
    last_done,         \* history: host -> time its last request completed
    retry_after_rec,   \* history: host -> Retry-After value in force
    cache_enabled,     \* config.cache.enabled: Fetcher._cache_manager is set
    dry_run,           \* config.dry_run
    cancelled,         \* Fetcher._cancelled
    run_pc,            \* where Fetcher.run is
    discovered_urls,   \* run(): discovered_urls
    idx,               \* run(): the URLs of discovered_urls done with
    step,              \* FetchPipeline.execute: the step the loop is at
    ctx,               \* FetchPipeline.execute: ctx
    stats,             \* Fetcher._stats
    fetched_urls,      \* CacheManager._state.fetched_urls
    failed_urls,       \* CacheManager._state.failed_urls
    manifest,          \* CacheManager.manifest: the URLs with an entry
    pending,           \* the persisted discovered-URL list: None or Some(list)
    failure,           \* history: url -> the step its pipeline failed in
    resume,            \* config.cache.resume
    out_format,        \* config.output.format
    stream,            \* the events run() has yielded, in order
    collected,         \* run(): collected_events
    executed,          \* history: the steps the current pipeline execution has run
    files,             \* the output directory: URLs with a markdown file, URLs with a SQLite row
    flushed,           \* state.json and manifest.json as the last flush left them
    run_no,            \* history: which run on this cache directory this is
    finals,            \* history: for each URL the loop is done with, its final context
    disc_reqs,         \* history: the requests discovery has issued in this run
    marked,            \* history: the URLs mark_fetched was called for, in any run
    val_url,           \* UrlValidator.validate: url
    val_result,        \* what validate returned ("none": not called yet)
    robots_cache,      \* RobotsChecker._cache: domain -> None or Some(parser)
    robots_log,        \* history: domain -> the outcomes of its robots.txt requests
    robots_call,       \* history: the last public call on the checker and its answer
    disc_cfg,          \* the site and the settings of one CompositeDiscoverer.discover call
    disc_pc,           \* CompositeDiscoverer.discover: "idle", "sitemap", "crawl", "done"
    disc_src,          \* what the sub-discoverer being iterated yields
    disc_pos,          \* how many of disc_src the loop has consumed
    disc_count,        \* discover: count
    disc_sitemap_count,\* discover: sitemap_count
    disc_seen,         \* CompositeDiscoverer._seen._seen
    disc_out,          \* history: the URLs discover has yielded, in order
    disc_crawled,      \* history: self._crawler.discover was started
    dedup_seen,        \* StreamingDeduplicator._seen: hash -> url
    dedup_lock,        \* StreamingDeduplicator._lock: 0 when free, else the call holding it
    dedup_total_checked,    \* _total_checked
    dedup_duplicates_found, \* _duplicates_found
    dedup_pc,          \* each check_and_register call: "idle", "acquire", "locked", "returned"
    dedup_arg,         \* each call's url and content hash
    dedup_ret,         \* each call's return value
    dedup_order,       \* history: the calls in the order they went through the lock
    page_cfg,          \* what each URL serves, output.format and content_filter.streaming_dedup
    events,            \* history: the page_deduplicated events emitted
    saved_files,       \* history: the URLs whose page a save step has written
    disk,              \* manifest.json and state.json as they are on disk
    disk_prev,         \* history: the two files as they were before flush
    dirty,             \* CacheManager._manifest_dirty and _state_dirty
    flush_pc,          \* where CacheManager.flush is
    flush_pos,         \* how much of the file being written has been written
    scope_pc,          \* where the "async with Fetcher(config)" scope is
    scope_cfg,         \* crawl.javascript, output.format and cache.enabled of that Fetcher
    held,              \* the components acquired and not yet released
    scope_end,         \* how run() ended inside the scope ("" before that)
    json_out,          \* the file at the output path of JsonSaveStep (None: no file)
    json_tmp,          \* the temp file of JsonSaveStep (None: not created, or gone)
    json_count,        \* JsonSaveStep._document_count
    json_first,        \* JsonSaveStep._first_doc
    json_pc,           \* "open", then where finalize is, "done" or "raised"
    json_recs,         \* history: the records whose write went through, in order
    canon_in,          \* the URL text handed to normalize_url
    canon_out,         \* what normalize_url returned for it (None: not called yet)
    canon_again,       \* what normalize_url returned for canon_out (None: not called yet)
    sm_graph,          \* the sitemaps the site serves: location -> nested sitemap locations
    sm_stack,          \* the _discover_from_sitemap calls in progress, innermost last
    sm_log,            \* history: the calls made, with their depth and whether they fetched
    sm_pc,             \* SitemapDiscoverer.discover: "start", "running", "done"
    cr_cfg,            \* LinkCrawler.discover: the seed, the site's links and robots.txt, max_depth
    cr_queue,          \* queue: the (url, depth) pairs waiting
    cr_seen,           \* self._seen
    cr_out,            \* history: what was yielded, with the depth it was found at
    cr_fetched,        \* history: the URLs whose page was requested for link extraction
    cr_links,          \* the links of the current page still to go through
    cr_depth,          \* depth of the current page
    cr_pc,             \* "start", "queue", "links", "done"
    bp_max,            \* BrowserContextPool._max_contexts
    bp_sem,            \* BrowserContextPool._semaphore: the free permits
    bp_idle,           \* BrowserContextPool._available: the contexts in the queue
    bp_pc,             \* per acquirer: "out", "taken" (in __aenter__), "in" (in the body), "closing"
    bp_ctx             \* per acquirer: BrowserContextManager._context

limiter_vars == <<host_configs, semaphores, last_request, lock>>
adaptive_vars == <<success_counts, current_delays, retry_after_rec>>
client_vars ==
    <<pc, url, host, delay, attempt, wake, status, cl_over, body, result, requests,
      last_done>>
run_vars ==
    <<cache_enabled, dry_run, cancelled, run_pc, discovered_urls, idx, step, ctx, stats,
      fetched_urls, failed_urls, manifest, pending, failure, resume, out_format, stream,
      collected, executed, files, flushed, run_no, finals, disc_reqs, marked>>
\* The configuration, and what the start of a run alone writes
run_config == <<cache_enabled, dry_run, resume, out_format, flushed, run_no>>
\* The same with the record of mark_fetched, which the steps before the
\* end of a pipeline execution leave alone
run_frame == <<run_config, marked>>
validator_vars == <<val_url, val_result>>
robots_vars == <<robots_cache, robots_log, robots_call>>
discover_vars ==
    <<disc_cfg, disc_pc, disc_src, disc_pos, disc_count, disc_sitemap_count, disc_seen,
      disc_out, disc_crawled>>
dedup_vars ==
    <<dedup_seen, dedup_lock, dedup_total_checked, dedup_duplicates_found, dedup_pc, dedup_arg,
      dedup_ret, dedup_order>>
pages_vars == <<page_cfg, events, saved_files>>
flush_vars == <<disk, disk_prev, dirty, flush_pc, flush_pos>>
scope_vars == <<scope_pc, scope_cfg, held, scope_end>>
json_vars == <<json_out, json_tmp, json_count, json_first, json_pc, json_recs>>
canon_vars == <<canon_in, canon_out, canon_again>>
sm_vars == <<sm_graph, sm_stack, sm_log, sm_pc>>
cr_vars == <<cr_cfg, cr_queue, cr_seen, cr_out, cr_fetched, cr_links, cr_depth, cr_pc>>
bp_vars == <<bp_max, bp_sem, bp_idle, bp_pc, bp_ctx>>
more_vars == <<scope_vars, json_vars, canon_vars, sm_vars, cr_vars, bp_vars>>
rest_vars == <<robots_vars, discover_vars, dedup_vars, pages_vars, flush_vars, more_vars>>
ext_vars == <<validator_vars, rest_vars>>
base_vars == <<adaptive, limiter_vars, adaptive_vars, now, client_vars, run_vars>>
not_robots == <<base_vars, validator_vars, discover_vars, dedup_vars, pages_vars, flush_vars,
                more_vars>>
not_discover == <<base_vars, validator_vars, robots_vars, dedup_vars, pages_vars, flush_vars,
                  more_vars>>
not_dedup == <<base_vars, validator_vars, robots_vars, discover_vars, pages_vars, flush_vars,
               more_vars>>
vars == <<adaptive, limiter_vars, adaptive_vars, now, client_vars, run_vars, ext_vars>>

\* ------------------------------------------------------- PerHostRateLimiter
\* _get_config(host)[0]
ConfigDelay(hc, h) ==
    IF h \in DOMAIN hc /\ hc[h].delay # None THEN hc[h].delay[1] ELSE default_delay

\* _get_config(host)[1]
ConfigConcurrent(hc, h) ==
    IF h \in DOMAIN hc /\ hc[h].concurrent # None THEN hc[h].concurrent[1]
    ELSE default_concurrent

\* update_host_config(host, delay=d)
UpdateHostConfig(hc, h, d) ==
    Put(hc, h, [Get(hc, h, NoOverride) EXCEPT !.delay = Some(d)])

\* --------------------------------------------------------- AdaptiveRateLimiter
\* record_rate_limit: the new delay
RateLimitDelay(current, retry_after) ==
    IF retry_after # None /\ retry_after[1] > 0
    THEN Min(retry_after[1], max_delay)
    ELSE Min(current * backoff_factor, max_delay)

\* record_rate_limit(url, retry_after)
RecordRateLimit(u, retry_after) ==
    LET h == GetHost(u)
        current == Get(current_delays, h, default_delay)
        new_delay == RateLimitDelay(current, retry_after)
    IN  /\ current_delays' = Put(current_delays, h, new_delay)
        /\ success_counts' = Put(success_counts, h, 0)
        /\ host_configs' = UpdateHostConfig(host_configs, h, new_delay)
        /\ retry_after_rec' =
              IF retry_after # None /\ retry_after[1] > 0
              THEN Put(retry_after_rec, h, new_delay)
              ELSE [k \in DOMAIN retry_after_rec \ {h} |-> retry_after_rec[k]]

\* record_success(url)
RecordSuccess(u) ==
    LET h == GetHost(u)
        count == Get(success_counts, h, 0) + 1
        current == Get(current_delays, h, default_delay)
        new_delay == Max(current \div backoff_factor, min_delay)
    IN  IF count >= success_threshold /\ new_delay < current
        THEN /\ current_delays' = Put(current_delays, h, new_delay)
             /\ host_configs' = UpdateHostConfig(host_configs, h, new_delay)
             /\ success_counts' = Put(success_counts, h, 0)
             /\ retry_after_rec' = [k \in DOMAIN retry_after_rec \ {h} |-> retry_after_rec[k]]
        ELSE /\ success_counts' = Put(success_counts, h, count)
             /\ UNCHANGED <<current_delays, host_configs, retry_after_rec>>

\* ------------------------------------------------------------------- Init
\* The limiter and the client after construction.
ClientInit ==
    /\ adaptive \in BOOLEAN
    /\ host_configs = InitialHostConfigs
    /\ semaphores = <<>>
    /\ last_request = <<>>
    /\ lock = {}
    /\ success_counts = <<>>
    /\ current_delays = <<>>
    /\ retry_after_rec = <<>>
    /\ now = max_delay
    /\ pc = [t \in Tasks |-> "idle"]
    /\ url = [t \in Tasks |-> CHOOSE u \in URLs : u.path = "/a"]
    /\ host = [t \in Tasks |-> ""]
    /\ delay = [t \in Tasks |-> 0]
    /\ attempt = [t \in Tasks |-> 0]
    /\ wake = [t \in Tasks |-> 0]
    /\ status = [t \in Tasks |-> 0]
    /\ cl_over = [t \in Tasks |-> FALSE]
    /\ body = [t \in Tasks |-> "none"]
    /\ result = [t \in Tasks |-> "none"]
    /\ requests = [t \in Tasks |-> 0]
    /\ last_done = <<>>

\* The URLs discovery may yield.
PageURLs ==
    { "https://docs.example.com/a", "https://docs.example.com/b",
      "https://docs.example.com/c" }

\* PageContext(url=url, output_path=output_path): error and skip_reason ""
\* are None, html and title are whether the bytes and the title are there,
\* markdown is "none", "empty" or "text", and saved is whether a sink has
\* written the page.
NewContext ==
    [should_skip |-> FALSE, skip_reason |-> "", error |-> "", html |-> FALSE, title |-> FALSE,
     markdown |-> "none", saved |-> FALSE]

\* FetchStats()
NewStats == [pages_fetched |-> 0, pages_skipped |-> 0, pages_failed |-> 0, files_saved |-> 0]

\* An output directory and a cache directory nothing has been written to
NoOutput == [markdown |-> {}, sqlite |-> {}]
NoState == [fetched_urls |-> {}, failed_urls |-> {}, manifest |-> {}]

\* The Fetcher's state when entered with the given configuration; the
\* cache directory is new and the output directory holds the given files.
FetcherEntered(at, cache, dry, format, res, existing) ==
    /\ cache_enabled = cache
    /\ resume = res
    /\ out_format = format
    /\ stream = <<>>
    /\ collected = <<>>
    /\ executed = <<>>
    /\ files = existing
    /\ flushed = NoState
    /\ run_no = 1
    /\ finals = <<>>
    /\ disc_reqs = 0
    /\ marked = {}
    /\ dry_run = dry
    /\ cancelled = FALSE
    /\ run_pc = at
    /\ discovered_urls = <<>>
    /\ idx = 0
    /\ step = 0
    /\ ctx = NewContext
    /\ stats = NewStats
    /\ fetched_urls = {}
    /\ failed_urls = {}
    /\ manifest = {}
    /\ pending = None
    /\ failure = [u \in PageURLs |-> "none"]

\* The same with the default output format, no resume and an empty output
\* directory.
FetcherInit(at, cache, dry) == FetcherEntered(at, cache, dry, "markdown", FALSE, NoOutput)

\* No URL has been handed to the validator.
NoUrl == [scheme |-> "", userinfo |-> <<>>, host |-> <<>>, bracketed |-> FALSE, port |-> ""]
ValidatorIdle == val_url = NoUrl /\ val_result = "none"

\* RobotsChecker.__init__: an empty cache; nothing requested, nothing asked.
NoCall == [op |-> "none", domain |-> <<>>, allowed |-> TRUE, delay |-> <<>>, sitemaps |-> <<>>]
RobotsIdle == robots_cache = <<>> /\ robots_log = <<>> /\ robots_call = NoCall

\* CompositeDiscoverer.__init__: no discover call yet.
NoSite ==
    [files |-> <<>>, links |-> <<>>,
     robots |-> [failed |-> TRUE, status |-> 0,
                 body |-> [disallow |-> {}, crawl_delay |-> <<>>, sitemaps |-> <<>>]],
     max_urls |-> <<>>, crawler |-> FALSE, fallback_threshold |-> 0]
DiscoverIdle ==
    /\ disc_cfg = NoSite
    /\ disc_pc = "idle"
    /\ disc_src = <<>>
    /\ disc_pos = 0
    /\ disc_count = 0
    /\ disc_sitemap_count = 0
    /\ disc_seen = {}
    /\ disc_out = <<>>
    /\ disc_crawled = FALSE

\* The check_and_register calls that can be going on at once.
Calls == 1..NumCalls

\* StreamingDeduplicator.__init__, and no call made yet.
NoArg == [url |-> "", hash |-> ""]
NoRet == <<FALSE, <<>>>>
DedupIdle ==
    /\ dedup_seen = <<>>
    /\ dedup_lock = 0
    /\ dedup_total_checked = 0
    /\ dedup_duplicates_found = 0
    /\ dedup_pc = [c \in Calls |-> "idle"]
    /\ dedup_arg = [c \in Calls |-> NoArg]
    /\ dedup_ret = [c \in Calls |-> NoRet]
    /\ dedup_order = <<>>

\* Fetcher.__init__: the defaults of output.format and streaming_dedup, and
\* no page processed yet.
NoPages == [html |-> <<>>, format |-> "markdown", streaming_dedup |-> FALSE]
PagesIdle == page_cfg = NoPages /\ events = <<>> /\ saved_files = {}

\* CacheManager.__init__ on an empty cache directory: no file, nothing to
\* save.
NoFiles == [manifest |-> <<>>, state |-> <<>>]
FlushIdle ==
    /\ disk = NoFiles
    /\ disk_prev = NoFiles
    /\ dirty = [manifest |-> FALSE, state |-> FALSE]
    /\ flush_pc = "idle"
    /\ flush_pos = 0

\* A Fetcher with the default configuration after __aenter__: the HTTP
\* session is open.
ScopeIdle ==
    /\ scope_pc = "inside"
    /\ scope_cfg = [javascript |-> FALSE, format |-> "markdown", cache |-> FALSE]
    /\ held = {"http"}
    /\ scope_end = ""

\* JsonSaveStep.__init__: nothing counted, no temp file, and no file at the
\* output path.
JsonIdle ==
    /\ json_out = None
    /\ json_tmp = None
    /\ json_count = 0
    /\ json_first = TRUE
    /\ json_pc = "open"
    /\ json_recs = <<>>

\* normalize_url has not been called.
CanonIdle == canon_in = <<>> /\ canon_out = None /\ canon_again = None

\* No sitemap discovery is going on.
SitemapIdle == sm_graph = <<>> /\ sm_stack = <<>> /\ sm_log = <<>> /\ sm_pc = "start"

\* No link crawl is going on.
CrawlIdle ==
    /\ cr_cfg = <<>> /\ cr_queue = <<>> /\ cr_seen = {} /\ cr_out = <<>> /\ cr_fetched = <<>>
    /\ cr_links = <<>> /\ cr_depth = 0 /\ cr_pc = "start"

\* No browser pool has been entered.
PoolIdle == bp_max = 0 /\ bp_sem = 0 /\ bp_idle = <<>> /\ bp_pc = <<>> /\ bp_ctx = <<>>

\* The components added last are at rest.
MoreIdle == ScopeIdle /\ JsonIdle /\ CanonIdle /\ SitemapIdle /\ CrawlIdle /\ PoolIdle

\* The components other than the validator are at rest.
RestIdle == RobotsIdle /\ DiscoverIdle /\ DedupIdle /\ PagesIdle /\ FlushIdle /\ MoreIdle

\* The components outside the limiter, the client and the run are at rest.
ExtIdle == ValidatorIdle /\ RestIdle

\* No run is going on.
Init == ClientInit /\ FetcherInit("idle", FALSE, FALSE) /\ ExtIdle

\* ------------------------------------------------------------ the clock
Tick ==
    /\ now < max_delay + MaxTime
    /\ now' = now + 1
    /\ UNCHANGED <<ext_vars, run_vars, adaptive, limiter_vars, adaptive_vars, client_vars>>

\* ------------------------------------------------ PerHostRateLimiter.limit
\* A coroutine runs until it has to wait: for _lock, for a permit, for a
\* sleep or for the network.  Advance takes task t from `stage` of limit()
\* to the place where it next waits:
\*   "get_semaphore"  waiting for _lock in _get_semaphore
\*   "sem_acquire"    waiting for a permit of the host's semaphore
\*   "delay_lock"     waiting for _lock before the delay computation
\*   "delay_sleep"    in asyncio.sleep(wait_time), holding _lock
\*   "request"        inside the scope, the request is on the wire
\* h and d are limit()'s host and delay; sems is _semaphores as the caller
\* leaves it.  Which waiter runs first when a lock or permit is freed is
\* left open.

\* max(0.0, delay - (now - last))
WaitTime(h, d) == Max(0, d - (now - Get(last_request, h, 0)))

\* Faulty variant: the semaphore is created one permit too large
WithSemaphoreOffByOne(sems, h) ==
    IF h \in DOMAIN sems THEN sems ELSE Put(sems, h, ConfigConcurrent(host_configs, h) + 1)

\* _get_semaphore: the semaphore is created on the host's first use
WithSemaphore(sems, h) ==
    IF h \in DOMAIN sems THEN sems ELSE Put(sems, h, ConfigConcurrent(host_configs, h))

\* Semaphore.acquire proceeds only when a permit is free
PermitFree(sems, h) == sems[h] > 0

\* The tasks queued on the semaphore of host h
Waiters(h) == {w \in Tasks : pc[w] = "sem_acquire" /\ host[w] = h}

\* Semaphore.acquire of a task that arrives while others are queued: it
\* queues behind them (Semaphore.locked() counts waiters since Python 3.11)
\* or takes the free permit at once (earlier versions); first says which.
Advance(t, stage, h, d, sems, first) ==
    LET stop1 == stage = "get_semaphore" /\ lock # {}
        sems1 == IF stage = "get_semaphore" /\ ~stop1 THEN WithSemaphore(sems, h) ELSE sems
        acquiring == ~stop1 /\ stage \in {"get_semaphore", "sem_acquire"}
        queued == stage = "get_semaphore" /\ Waiters(h) \ {t} # {} /\ ~first
        stop2 == acquiring /\ (~PermitFree(sems1, h) \/ queued)
        sems2 == IF acquiring /\ ~stop2 THEN [sems1 EXCEPT ![h] = @ - 1] ELSE sems1
        stop3 == ~stop1 /\ ~stop2 /\ lock # {}
        wait == WaitTime(h, d)
        at == IF stop1 THEN "get_semaphore"
              ELSE IF stop2 THEN "sem_acquire"
              ELSE IF stop3 THEN "delay_lock"
              ELSE IF wait > 0 THEN "delay_sleep"
              ELSE "request"
    IN  /\ pc' = [pc EXCEPT ![t] = at]
        /\ host' = [host EXCEPT ![t] = h]
        /\ delay' = [delay EXCEPT ![t] = d]
        /\ semaphores' = sems2
        /\ lock' = IF at = "delay_sleep" THEN {t} ELSE lock
        /\ wake' = [wake EXCEPT ![t] = IF at = "delay_sleep" THEN now + wait ELSE 0]
        /\ last_request' = IF at = "request" THEN Put(last_request, h, now) ELSE last_request
        /\ requests' = [requests EXCEPT ![t] = IF at = "request" THEN @ + 1 ELSE @]

\* limit(url) from its first line: host and delay are read here
LimitEnter(t, u, sems, first) ==
    Advance(t, "get_semaphore", GetHost(u), ConfigDelay(host_configs, GetHost(u)), sems, first)

\* ---------------------------------------------------- AsyncHttpClient.get
Statuses == {200, 429, 503}
RetryAfterHeaders == {None, Some(0), Some(4)}

\* _calculate_retry_delay(attempt), without the jitter: a sleep may last
\* longer than asked, which covers the jitter.
CalculateRetryDelay(a) == retry_base_delay * (2 ^ a)

\* Faulty variant: one retry too many
AttemptsLeftOffByOne(a) == a <= max_retries

\* attempt < self._max_retries
AttemptsLeft(a) == a < max_retries

\* response.status in self.RETRYABLE_STATUS_CODES
IsRetryableStatus(s) == s \in RETRYABLE_STATUS_CODES

\* get(url): the attempt loop begins and runs into limit(url).
StartGet(t, u, first) ==
    /\ pc[t] = "idle"
    /\ url' = [url EXCEPT ![t] = u]
    /\ LimitEnter(t, u, semaphores, first)
    /\ UNCHANGED <<ext_vars, run_vars, adaptive, host_configs, adaptive_vars, now, attempt, status, cl_over, body,
                   result, last_done>>

\* A task that waited for _lock or for a permit goes on once it is free.
Resume(t) ==
    /\ pc[t] \in {"get_semaphore", "sem_acquire", "delay_lock"}
    /\ IF pc[t] = "sem_acquire" THEN PermitFree(semaphores, host[t]) ELSE lock = {}
    /\ Advance(t, pc[t], host[t], delay[t], semaphores, TRUE)
    /\ UNCHANGED <<ext_vars, run_vars, adaptive, host_configs, adaptive_vars, now, url, attempt, status, cl_over,
                   body, result, last_done>>

\* asyncio.sleep(wait_time) returns: the timestamp is recorded, _lock is
\* released, the scope is entered and the request issued.
DelayWake(t) ==
    /\ pc[t] = "delay_sleep"
    /\ now >= wake[t]
    /\ lock' = {}
    /\ wake' = [wake EXCEPT ![t] = 0]
    /\ last_request' = Put(last_request, host[t], now)
    /\ pc' = [pc EXCEPT ![t] = "request"]
    /\ requests' = [requests EXCEPT ![t] = @ + 1]
    /\ UNCHANGED <<ext_vars, run_vars, adaptive, host_configs, semaphores, adaptive_vars, now, url, host, delay,
                   attempt, status, cl_over, body, result, last_done>>

\* Faulty variant: the permit is not given back
ExitScopeLeak(sems, h) == sems

\* async with sem: __aexit__, on every way out of the scope
ExitScope(sems, h) == [sems EXCEPT ![h] = @ + 1]

\* The locals of limit() and get() are gone once get() has returned or raised.
Leave(t, how) ==
    /\ pc' = [pc EXCEPT ![t] = "done"]
    /\ result' = [result EXCEPT ![t] = how]
    /\ host' = [host EXCEPT ![t] = ""]
    /\ delay' = [delay EXCEPT ![t] = 0]
    /\ wake' = [wake EXCEPT ![t] = 0]

\* except RETRYABLE_EXCEPTIONS: sleep and go round the loop, or re-raise on
\* the last attempt.  The scope has been left.
HandleRetryableException(t) ==
    IF AttemptsLeft(attempt[t])
    THEN /\ wake' = [wake EXCEPT ![t] = now + CalculateRetryDelay(attempt[t])]
         /\ pc' = [pc EXCEPT ![t] = "retry_sleep"]
         /\ UNCHANGED <<result, host, delay>>
    ELSE Leave(t, "raised_transient")

\* session.get raises aiohttp.ClientError or asyncio.TimeoutError
RequestError(t) ==
    /\ pc[t] = "request"
    /\ semaphores' = ExitScope(semaphores, host[t])
    /\ HandleRetryableException(t)
    /\ last_done' = Put(last_done, host[t], now)
    /\ UNCHANGED <<ext_vars, run_vars, adaptive, host_configs, last_request, lock, adaptive_vars, now, url,
                   attempt, status, cl_over, body, requests>>

\* The response headers arrive with a retryable status.
RespondRetryable(t, s, ra, over) ==
    /\ pc[t] = "request"
    /\ IsRetryableStatus(s)
    /\ status' = [status EXCEPT ![t] = s]
    /\ cl_over' = [cl_over EXCEPT ![t] = over]
    /\ IF s = 429 /\ adaptive
       THEN RecordRateLimit(url[t], ra)
       ELSE UNCHANGED <<host_configs, adaptive_vars>>
    /\ IF AttemptsLeft(attempt[t])
       THEN \* await asyncio.sleep(delay) inside the scope, then continue
            /\ wake' = [wake EXCEPT ![t] = now + CalculateRetryDelay(attempt[t])]
            /\ pc' = [pc EXCEPT ![t] = "backoff"]
            /\ UNCHANGED <<semaphores, result, host, delay>>
       ELSE \* response.raise_for_status(): a ClientError on the last attempt
            /\ semaphores' = ExitScope(semaphores, host[t])
            /\ HandleRetryableException(t)
    /\ last_done' = Put(last_done, host[t], now)
    /\ UNCHANGED <<ext_vars, run_vars, adaptive, last_request, lock, now, url, attempt, body, requests>>

\* Faulty variant: the Content-Length header is not looked at
ContentLengthIgnored(over) == FALSE

\* content_length and int(content_length) > self._max_content_size
ContentLengthTooLarge(over) == over

\* The response headers arrive with a status that is not retried.
RespondFinal(t, s, over) ==
    /\ pc[t] = "request"
    /\ ~IsRetryableStatus(s)
    /\ status' = [status EXCEPT ![t] = s]
    /\ cl_over' = [cl_over EXCEPT ![t] = over]
    /\ IF ContentLengthTooLarge(over)
       THEN \* raise ValueError; except Exception: raise
            /\ semaphores' = ExitScope(semaphores, host[t])
            /\ Leave(t, "content_too_large")
            /\ last_done' = Put(last_done, host[t], now)
       ELSE /\ pc' = [pc EXCEPT ![t] = "read_body"]
            /\ UNCHANGED <<semaphores, result, host, delay, wake, last_done>>
    /\ UNCHANGED <<ext_vars, run_vars, adaptive, host_configs, last_request, lock, adaptive_vars, now, url,
                   attempt, body, requests>>

\* async for chunk in response.content.iter_chunked(8192): the body is read
\* to its end, or passes the size limit, or the connection fails.
ReadBody(t, how) ==
    /\ pc[t] = "read_body"
    /\ body' = [body EXCEPT ![t] = how]
    /\ semaphores' = ExitScope(semaphores, host[t])
    /\ last_done' = Put(last_done, host[t], now)
    /\ CASE how = "complete" ->
              /\ IF adaptive
                 THEN RecordSuccess(url[t])
                 ELSE UNCHANGED <<host_configs, adaptive_vars>>
              /\ Leave(t, "returned")
         [] how = "oversize" ->
              /\ Leave(t, "content_too_large")
              /\ UNCHANGED <<host_configs, adaptive_vars>>
         [] how = "error" ->
              /\ HandleRetryableException(t)
              /\ UNCHANGED <<host_configs, adaptive_vars>>
    /\ UNCHANGED <<ext_vars, run_vars, adaptive, last_request, lock, now, url, attempt, status, cl_over,
                   requests>>

\* The response of the attempt that failed is dropped with its scope.
NextAttempt(t) ==
    /\ attempt' = [attempt EXCEPT ![t] = @ + 1]
    /\ status' = [status EXCEPT ![t] = 0]
    /\ cl_over' = [cl_over EXCEPT ![t] = FALSE]
    /\ body' = [body EXCEPT ![t] = "none"]

\* The sleep inside the scope ends; continue leaves the scope and the loop
\* runs into limit(url) again.
BackoffWake(t, first) ==
    /\ pc[t] = "backoff"
    /\ now >= wake[t]
    /\ NextAttempt(t)
    /\ LimitEnter(t, url[t], ExitScope(semaphores, host[t]), first)
    /\ UNCHANGED <<ext_vars, run_vars, adaptive, host_configs, adaptive_vars, now, url, result, last_done>>

\* The sleep of the except branch ends; the loop runs into limit(url) again.
RetryWake(t, first) ==
    /\ pc[t] = "retry_sleep"
    /\ now >= wake[t]
    /\ NextAttempt(t)
    /\ LimitEnter(t, url[t], semaphores, first)
    /\ UNCHANGED <<ext_vars, run_vars, adaptive, host_configs, adaptive_vars, now, url, result, last_done>>

Next ==
    \/ Tick
    \/ \E t \in Tasks, u \in URLs, first \in BOOLEAN : StartGet(t, u, first)
    \/ \E t \in Tasks : Resume(t)
    \/ \E t \in Tasks : DelayWake(t)
    \/ \E t \in Tasks : RequestError(t)
    \/ \E t \in Tasks, s \in Statuses, ra \in RetryAfterHeaders, over \in BOOLEAN :
          RespondRetryable(t, s, ra, over)
    \/ \E t \in Tasks, s \in Statuses, over \in BOOLEAN : RespondFinal(t, s, over)
    \/ \E t \in Tasks, how \in {"complete", "oversize", "error"} : ReadBody(t, how)
    \/ \E t \in Tasks, first \in BOOLEAN : BackoffWake(t, first)
    \/ \E t \in Tasks, first \in BOOLEAN : RetryWake(t, first)

Spec == Init /\ [][Next]_vars

TypeOK ==
    /\ \A h \in DOMAIN semaphores : semaphores[h] >= 0
    /\ now \in max_delay..(max_delay + MaxTime)

\* ======================================================================
\* Properties of the rate limiter and the client (specification Spec)
\* ======================================================================

\* Task t holds a permit of its host's semaphore.
HoldsPermit(t) == pc[t] \in {"delay_lock", "delay_sleep", "request", "read_body", "backoff"}

\* Task t is inside the yielded body of limit().
InBody(t) == pc[t] \in {"request", "read_body", "backoff"}

\* Task t has a request on the wire.
InFlight(t) == pc[t] \in {"request", "read_body"}

\* Task t issues a request in this step.
StartsRequest(t) == pc[t] # "request" /\ pc'[t] = "request"

\* C1: for every host, the number of tasks inside the body of limit() for
\* that host never exceeds the concurrency configured for the host.
C1_ConcurrencyBound ==
    \A h \in Hosts :
        Cardinality({t \in Tasks : InBody(t) /\ host[t] = h}) <= ConfigConcurrent(host_configs, h)

\* C1 witness: a host's permits are all in use while another task waits for one.
C1_Witness ==
    \E h \in Hosts :
        /\ Cardinality({t \in Tasks : InBody(t) /\ host[t] = h}) = ConfigConcurrent(host_configs, h)
        /\ Waiters(h) # {}

\* C2 (as claimed): a request to a host starts only when no earlier request
\* to that host is still running and at least the host's configured delay has
\* passed since the last one completed.
C2_DelayAfterCompletion ==
    [][\A t \in Tasks :
          StartsRequest(t) =>
              /\ \A w \in Tasks \ {t} : ~(InFlight(w) /\ host[w] = host'[t])
              /\ host'[t] \in DOMAIN last_done =>
                    now - last_done[host'[t]] >= ConfigDelay(host_configs, host'[t])]_vars

\* C3: permits are neither leaked nor released twice: the free permits of a
\* host and the permits held add up to the configured concurrency, so once no
\* task is inside a scope every permit is available again.
C3_PermitsRestored ==
    \A h \in DOMAIN semaphores :
        /\ semaphores[h] <= ConfigConcurrent(host_configs, h)
        /\ ({t \in Tasks : HoldsPermit(t) /\ host[t] = h} = {}
               => semaphores[h] = ConfigConcurrent(host_configs, h))

\* C3 witness: a get has raised and every permit of its host is free again.
C3_Witness ==
    \E t \in Tasks :
        /\ pc[t] = "done"
        /\ result[t] \in {"raised_transient", "content_too_large"}
        /\ GetHost(url[t]) \in DOMAIN semaphores
        /\ {w \in Tasks : HoldsPermit(w) /\ host[w] = GetHost(url[t])} = {}
        /\ semaphores[GetHost(url[t])] = ConfigConcurrent(host_configs, GetHost(url[t]))

\* The canonical host of the specification: the host in lower case, with the
\* port kept unless it is the default of the scheme.
LowerCase(h) == IF h = "EXAMPLE.com" THEN "example.com" ELSE h
DefaultPort(scheme) == IF scheme = "https" THEN "443" ELSE "80"
CanonicalHost(u) ==
    IF u.port = "" \/ u.port = DefaultPort(u.scheme)
    THEN LowerCase(u.hostname)
    ELSE LowerCase(u.hostname) \o ":" \o u.port

\* C4 (as claimed): two tasks whose URLs have the same canonical host use the
\* same gate, so together they never exceed the host's concurrency.
C4_CanonicalHostKey ==
    \A t1, t2 \in Tasks :
        (HoldsPermit(t1) /\ HoldsPermit(t2) /\ CanonicalHost(url[t1]) = CanonicalHost(url[t2]))
            => host[t1] = host[t2]

\* C5 (as claimed): while a Retry-After value recorded for a host is in force,
\* every request to the host starts at least that long after the host's
\* previous request.
C5_RetryAfterHonoured ==
    [][\A t \in Tasks :
          (StartsRequest(t) /\ host'[t] \in DOMAIN retry_after_rec)
              => now - Get(last_request, host'[t], 0) >= retry_after_rec[host'[t]]]_vars

\* The response in hand of task t has a status that is not retried.
FinalStatus(t) == status[t] # 0 /\ ~IsRetryableStatus(status[t])

\* C8 (as claimed): at most max_retries + 1 requests; the first response with
\* a status that is not retried is returned without raising; a raise comes
\* only after the (max_retries + 1)-th transient outcome.
C8_FirstFinalResponseReturned ==
    \A t \in Tasks :
        /\ requests[t] <= max_retries + 1
        /\ (FinalStatus(t) /\ pc[t] # "read_body")
               => (pc[t] = "done" /\ result[t] = "returned")
        /\ (pc[t] = "done" /\ result[t] # "returned") => requests[t] = max_retries + 1

\* What is left of a get: the attempts not yet begun, then the places of the
\* current attempt still ahead.
StageRank(p) ==
    CASE p = "get_semaphore" -> 7
      [] p = "sem_acquire" -> 6
      [] p = "delay_lock" -> 5
      [] p = "delay_sleep" -> 4
      [] p = "request" -> 3
      [] p = "read_body" -> 2
      [] p \in {"backoff", "retry_sleep"} -> 1
      [] OTHER -> 0
Rank(t) == (max_retries - attempt[t]) * 8 + StageRank(pc[t])

\* The outcome of every get, in every state.
C8_Outcomes ==
    \A t \in Tasks :
        /\ requests[t] <= max_retries + 1
        /\ attempt[t] <= max_retries
        /\ pc[t] \in {"request", "read_body", "backoff", "retry_sleep", "done"}
               => requests[t] = attempt[t] + 1
        /\ (FinalStatus(t) /\ body[t] = "complete")
               => (pc[t] = "done" /\ result[t] = "returned")
        /\ (FinalStatus(t) /\ (cl_over[t] \/ body[t] = "oversize"))
               => (pc[t] = "done" /\ result[t] = "content_too_large")
        /\ (pc[t] = "done" /\ result[t] = "returned")
               => (FinalStatus(t) /\ ~cl_over[t] /\ body[t] = "complete")
        /\ (pc[t] = "done" /\ result[t] = "content_too_large")
               => (FinalStatus(t) /\ (cl_over[t] \/ body[t] = "oversize"))
        /\ (pc[t] = "done" /\ result[t] = "raised_transient")
               => /\ requests[t] = max_retries + 1
                  /\ (status[t] = 0 \/ IsRetryableStatus(status[t]) \/ body[t] = "error")
        /\ pc[t] \in {"backoff", "retry_sleep"} => attempt[t] < max_retries

\* C8 (amended): at most max_retries + 1 requests, one per attempt, and the
\* get terminates: every step it takes brings it nearer to its end.  A
\* response with a status that is not retried is returned once its body has
\* been read in full within the size limit; a non-retryable error while
\* handling it (Content-Length or body over the size limit) is raised at
\* once; any other raise comes only after the (max_retries + 1)-th transient
\* outcome (retryable status, connection error, timeout, failed body read).
C8_BoundedRetries ==
    /\ []C8_Outcomes
    /\ [][\A t \in Tasks :
             (pc[t] \notin {"idle", "done"} /\ <<pc[t], attempt[t]>> # <<pc'[t], attempt'[t]>>)
                 => (Rank(t)' < Rank(t) /\ Rank(t)' >= 0)]_vars

\* C8 witness: a get has raised after max_retries + 1 transient outcomes.
C8_Witness ==
    \E t \in Tasks :
        /\ pc[t] = "done"
        /\ result[t] = "raised_transient"
        /\ requests[t] = max_retries + 1

\* C10 (as claimed): a response whose Content-Length exceeds the limit ends
\* the get with a content-too-large error, no body chunk read, and it is the
\* only request of the get.
C10_OversizeFailsOnce ==
    \A t \in Tasks :
        (status[t] # 0 /\ cl_over[t])
            => /\ pc[t] = "done"
               /\ result[t] = "content_too_large"
               /\ body[t] = "none"
               /\ requests[t] = 1

\* C10 (amended): a response with a status that is not retried and a
\* Content-Length over the limit ends the get with a content-too-large
\* error before any body chunk is read, and no request follows it.
C10_OversizeFailsFast ==
    \A t \in Tasks :
        (FinalStatus(t) /\ cl_over[t])
            => /\ pc[t] = "done"
               /\ result[t] = "content_too_large"
               /\ body[t] = "none"
               /\ requests[t] = attempt[t] + 1

\* C10 witness: such a response arrived on a retry and ended the get.
C10_Witness ==
    \E t \in Tasks :
        /\ FinalStatus(t) /\ cl_over[t]
        /\ pc[t] = "done"
        /\ result[t] = "content_too_large"
        /\ requests[t] = 2

\* ======================================================================
\* AdaptiveRateLimiter on its own (specification SpecAdaptive): any sequence
\* of record_rate_limit, record_success and update_host_config calls
\* ======================================================================

\* The Retry-After values a caller passes: none, zero, one below and one
\* above max_delay.
RetryAfterValues == {None, Some(0), Some(4), Some(16)}

\* The delays a caller sets for a host (a robots.txt Crawl-delay).
CrawlDelays == {1, 4}

\* The hosts the calls are about: one with an override, one without.
AdaptiveURLs == {u \in URLs : u.port = ""}

InitAdaptive == Init /\ adaptive

\* await limiter.record_rate_limit(url, retry_after)
CallRecordRateLimit(u, ra) ==
    /\ RecordRateLimit(u, ra)
    /\ UNCHANGED <<ext_vars, run_vars, adaptive, semaphores, last_request, lock, now, client_vars>>

\* await limiter.record_success(url)
CallRecordSuccess(u) ==
    /\ Get(success_counts, GetHost(u), 0) < MaxCount
    /\ RecordSuccess(u)
    /\ UNCHANGED <<ext_vars, run_vars, adaptive, semaphores, last_request, lock, now, client_vars>>

\* limiter.update_host_config(host, delay=d)
CallUpdateHostConfig(u, d) ==
    /\ host_configs' = UpdateHostConfig(host_configs, GetHost(u), d)
    /\ UNCHANGED <<ext_vars, run_vars, adaptive, semaphores, last_request, lock, adaptive_vars, now, client_vars>>

NextAdaptive ==
    \/ \E u \in AdaptiveURLs, ra \in RetryAfterValues : CallRecordRateLimit(u, ra)
    \/ \E u \in AdaptiveURLs : CallRecordSuccess(u)
    \/ \E u \in AdaptiveURLs, d \in CrawlDelays : CallUpdateHostConfig(u, d)

SpecAdaptive == InitAdaptive /\ [][NextAdaptive]_vars

\* C6 (as claimed): record_rate_limit sets the host's delay to
\* min(Retry-After, max_delay) when a positive Retry-After is given, otherwise
\* to min(the host's effective delay * backoff_factor, max_delay), and resets
\* the host's success counter, whether the effective delay is the default or
\* a per-host override.
C6_RateLimitDelay ==
    [][\A u \in AdaptiveURLs, ra \in RetryAfterValues :
          CallRecordRateLimit(u, ra) =>
              /\ ConfigDelay(host_configs', GetHost(u)) =
                    (IF ra # None /\ ra[1] > 0
                     THEN Min(ra[1], max_delay)
                     ELSE Min(ConfigDelay(host_configs, GetHost(u)) * backoff_factor, max_delay))
              /\ success_counts'[GetHost(u)] = 0]_vars

\* C7 (as claimed): after any sequence of record_success and
\* record_rate_limit calls every host's success counter is below
\* success_threshold.
C7_CounterBelowThreshold ==
    \A h \in DOMAIN success_counts : success_counts[h] < success_threshold

\* ======================================================================
\* Fetcher.run and FetchPipeline.execute (specification SpecRun): one run
\* with the default pipeline (validate, fetch, metadata, convert, save),
\* config.cache.resume off
\* ======================================================================

\* Fetcher.__aenter__: the steps of the pipeline, by their name attribute
PipelineSteps == <<"validate", "fetch", "metadata", "convert", "save">>

\* Fetcher.__aenter__: the save step of the output format comes last
SaveStepName(format) ==
    CASE format = "json" -> "save_json"
      [] format = "sqlite" -> "save_sqlite"
      [] OTHER -> "save"
StepsFor(format) == [PipelineSteps EXCEPT ![Len(PipelineSteps)] = SaveStepName(format)]

\* What discovery may hand to the loop: each URL once, at most MaxUrls.
UrlLists ==
    {l \in UNION {[1..n -> PageURLs] : n \in 0..MaxUrls} :
        \A a, b \in DOMAIN l : a # b => l[a] # l[b]}

\* FetchEvent(type=..., url=...): message and error "" are None
FetchEvent(type, u) ==
    [type |-> type, url |-> u, message |-> "", error |-> "", total |-> None, skip_reason |-> None]

\* A step's execute ends by returning a context or by raising e.
Returned(c) == [ctx |-> c, raised |-> FALSE, e |-> ""]
Raised(c, e) == [ctx |-> c, raised |-> TRUE, e |-> e]

\* ctx.should_skip = True; ctx.skip_reason = ...
Skip(c, why) == [c EXCEPT !.should_skip = TRUE, !.skip_reason = why]

\* ValidateStep.execute: the URL validator, robots.txt and the existing-file
\* check, in that order, each set should_skip.
ValidateOutcomes == {"ok", "invalid_url", "robots_txt", "file_exists"}
ValidateExecute(c, o) ==
    CASE o = "invalid_url" -> Returned(Skip(c, "URL validation failed"))
      [] o = "robots_txt" -> Returned(Skip(c, "Blocked by robots.txt"))
      [] o = "file_exists" -> Returned(Skip(c, "Output file already exists"))
      [] OTHER -> Returned(c)

\* FetchStep.execute: a 4xx status and a content type that is not HTML set
\* should_skip; whatever client.get raises is raised again.
FetchOutcomes == {"html", "client_error", "bad_content_type", "raise"}
FetchExecute(c, o) ==
    CASE o = "raise" -> Raised(c, "request failed")
      [] o = "client_error" -> Returned(Skip(c, "HTTP 404"))
      [] o = "bad_content_type" -> Returned(Skip(c, "Invalid content type"))
      [] OTHER -> Returned([c EXCEPT !.html = TRUE])

\* MetadataStep.execute: title and metadata only, and it never raises.
MetadataExecute(c) ==
    IF c.should_skip \/ c.error # "" \/ ~c.html THEN Returned(c)
    ELSE Returned([c EXCEPT !.title = TRUE])

\* ConvertStep.execute: it records a failed conversion in ctx.error and
\* returns.
ConvertOutcomes == {"text", "empty", "no_content", "fail"}
ConvertExecute(c, o) ==
    IF c.should_skip \/ c.error # "" THEN Returned(c)
    ELSE IF ~c.html THEN Returned([c EXCEPT !.error = "No HTML content to convert"])
    ELSE CASE o = "no_content" -> Returned(Skip(c, "No content extracted"))
           [] o = "fail" -> Returned([c EXCEPT !.error = "Conversion failed"])
           [] OTHER -> Returned([c EXCEPT !.markdown = o])

\* SaveStep.execute: the markdown, or else the raw HTML, is written; a
\* ValueError (path outside the base directory) or OSError is recorded in
\* ctx.error and raised again.
SaveOutcomes == {"written", "value_error", "os_error"}
SaveExecute(c, o) ==
    IF c.markdown = "none" /\ ~c.html THEN Returned(Skip(c, "No content to save"))
    ELSE CASE o = "written" -> Returned([c EXCEPT !.saved = TRUE])
           [] o = "value_error" ->
                Raised([c EXCEPT !.error = "outside base directory", !.should_skip = TRUE],
                       "outside base directory")
           [] OTHER -> Raised([c EXCEPT !.error = "Failed to save: disk full"], "disk full")

\* JsonSaveStep.execute: nothing without markdown; the document goes to the
\* temporary file, and an OSError of the write is not caught.
JsonSaveExecute(c, o) ==
    IF c.should_skip \/ c.markdown # "text" THEN Returned(c)
    ELSE IF o = "written" THEN Returned([c EXCEPT !.saved = TRUE])
    ELSE Raised(c, "disk full")

\* SqliteSaveStep.execute: nothing without markdown; INSERT OR IGNORE
\* writes no row for a URL the table has (url is UNIQUE); sqlite3.Error is
\* recorded in ctx.error and the context returned.
SqliteSaveExecute(c, o, present) ==
    IF c.should_skip \/ c.markdown # "text" THEN Returned(c)
    ELSE IF o = "written" THEN Returned([c EXCEPT !.saved = ~present])
    ELSE Returned([c EXCEPT !.error = "SQLite error: database is locked"])

\* The events a step hands to emit, from the context it got and how it ended
StepEvents(name, u, c, r) ==
    LET skipped == [FetchEvent("fetch_skipped", u) EXCEPT !.message = r.ctx.skip_reason]
        failed(e) == [FetchEvent("fetch_failed", u) EXCEPT !.error = e]
    IN  CASE name = "validate" -> IF r.ctx.should_skip THEN <<skipped>> ELSE <<>>
          [] name = "fetch" ->
               <<FetchEvent("fetch_started", u)>>
               \o (IF r.raised THEN <<failed(r.e)>>
                   ELSE IF r.ctx.should_skip THEN <<skipped>>
                   ELSE <<FetchEvent("fetch_completed", u)>>)
          [] name = "metadata" ->
               IF r.ctx.title /\ ~c.title THEN <<FetchEvent("metadata_extracted", u)>> ELSE <<>>
          [] name = "convert" ->
               IF c.should_skip \/ c.error # "" THEN <<>>
               ELSE IF r.ctx.error # "" THEN <<failed(r.ctx.error)>>
               ELSE IF r.ctx.should_skip THEN <<skipped>>
               ELSE <<FetchEvent("page_converted", u)>>
          [] name = "save" ->
               IF r.raised THEN <<failed(r.e)>>
               ELSE IF r.ctx.should_skip THEN <<skipped>>
               ELSE <<FetchEvent("page_saved", u)>>
          [] OTHER ->
               IF c.should_skip \/ c.markdown # "text" \/ r.raised THEN <<>>
               ELSE IF r.ctx.error # c.error THEN <<failed("database is locked")>>
               ELSE <<FetchEvent("page_saved", u)>>

\* ctx.error = f"{step.name}: {e}" without the step's name
StepErrorBare(name, e) == e

\* ctx.error = f"{step.name}: {e}"
StepError(name, e) == name \o ": " \o e

\* for step in self.steps: if ctx.should_skip: break -- never taken
LoopBreaksNever(c) == FALSE

\* for step in self.steps: if ctx.should_skip: break
LoopBreaks(c) == c.should_skip

\* Faulty variant: the exception of a step is swallowed without a trace in ctx.error
OnStepExceptionUnrecorded(c, name, e) == [c EXCEPT !.should_skip = TRUE]

\* FetchPipeline.execute, except Exception as e
OnStepException(c, name, e) == [c EXCEPT !.error = StepError(name, e), !.should_skip = TRUE]

\* Faulty variant: should_skip is looked at before error
CountResultSkipFirst(st, c) ==
    IF c.should_skip THEN [st EXCEPT !.pages_skipped = @ + 1]
    ELSE IF c.error # "" THEN [st EXCEPT !.pages_failed = @ + 1]
    ELSE [st EXCEPT !.pages_fetched = @ + 1, !.files_saved = @ + 1]

\* The loop's update of the statistics from the final context
CountResult(st, c) ==
    IF c.error # "" THEN [st EXCEPT !.pages_failed = @ + 1]
    ELSE IF c.should_skip THEN [st EXCEPT !.pages_skipped = @ + 1]
    ELSE [st EXCEPT !.pages_fetched = @ + 1, !.files_saved = @ + 1]

\* CacheManager.save_discovered_urls(urls, seed)
SaveDiscoveredUrls(urls) == Some(urls)

\* CacheManager.clear_discovered_urls()
ClearDiscoveredUrls == None

InitRun ==
    /\ ClientInit
    /\ ExtIdle
    /\ adaptive
    /\ \E cache \in BOOLEAN, dry \in BOOLEAN : FetcherInit("started", cache, dry)

client_state == <<adaptive, limiter_vars, adaptive_vars, now, client_vars>>

\* Fetcher.cancel()
Cancel ==
    /\ run_pc \in {"started", "discovering", "loop", "pipeline"}
    /\ ~cancelled
    /\ cancelled' = TRUE
    /\ UNCHANGED <<ext_vars, client_state, run_frame, run_pc, discovered_urls, idx, step,
                   ctx, stats, fetched_urls, failed_urls, manifest, pending, failure, stream,
                   collected, executed, files, finals, disc_reqs>>

\* Phase 1 in one step: started, discovery drained into discovered_urls, the
\* list persisted when caching is on, and the cancel flag looked at.
DiscoveryComplete(urls) ==
    /\ run_pc = "started"
    /\ IF cancelled
       THEN /\ run_pc' = "cancelled"
            /\ stream' = <<FetchEvent("started", ""), FetchEvent("discovery_started", ""),
                           FetchEvent("cancelled", "")>>
            /\ UNCHANGED <<discovered_urls, pending>>
       ELSE /\ run_pc' = "loop"
            /\ discovered_urls' = urls
            /\ pending' = IF cache_enabled THEN SaveDiscoveredUrls(urls) ELSE pending
            /\ stream' = <<FetchEvent("started", ""), FetchEvent("discovery_started", ""),
                           [FetchEvent("discovery_complete", "") EXCEPT !.total = Some(Len(urls))]>>
    /\ disc_reqs' = 1
    /\ UNCHANGED <<ext_vars, client_state, run_frame, cancelled, idx, step, ctx, stats,
                   fetched_urls, failed_urls, manifest, failure, collected, executed, files,
                   finals>>

\* for i, url in enumerate(discovered_urls): if self._cancelled
RunCancelled ==
    /\ run_pc = "loop"
    /\ idx < Len(discovered_urls)
    /\ cancelled
    /\ run_pc' = "cancelled"
    /\ stream' = Append(stream, FetchEvent("cancelled", ""))
    /\ UNCHANGED <<ext_vars, client_state, run_frame, cancelled, discovered_urls, idx, step,
                   ctx, stats, fetched_urls, failed_urls, manifest, pending, failure, collected,
                   executed, files, finals, disc_reqs>>

\* yield FetchEvent(type=EventType.FETCH_PROGRESS, url=url, current=i + 1, ...)
Progress == [FetchEvent("fetch_progress", discovered_urls[idx + 1])
                EXCEPT !.total = Some(Len(discovered_urls))]

\* if self.config.dry_run: the page is counted as skipped
DryRunSkip ==
    /\ run_pc = "loop"
    /\ idx < Len(discovered_urls)
    /\ ~cancelled
    /\ dry_run
    /\ stats' = [stats EXCEPT !.pages_skipped = @ + 1]
    /\ idx' = idx + 1
    /\ stream' = stream \o <<Progress,
                             [FetchEvent("fetch_skipped", discovered_urls[idx + 1])
                                EXCEPT !.message = "[dry-run] Would save",
                                       !.skip_reason = Some("dry_run")]>>
    /\ collected' = <<>>
    /\ finals' = Append(finals, [url |-> discovered_urls[idx + 1], ctx |-> None])
    /\ UNCHANGED <<ext_vars, client_state, run_frame, cancelled, run_pc, discovered_urls,
                   step, ctx, fetched_urls, failed_urls, manifest, pending, failure, executed,
                   files, disc_reqs>>

\* ctx = await self._pipeline.execute(url, output_path, emit=collect_event)
BeginPipeline ==
    /\ run_pc = "loop"
    /\ idx < Len(discovered_urls)
    /\ ~cancelled
    /\ ~dry_run
    /\ run_pc' = "pipeline"
    /\ ctx' = NewContext
    /\ step' = 1
    /\ stream' = Append(stream, Progress)
    /\ collected' = <<>>
    /\ executed' = <<>>
    /\ UNCHANGED <<ext_vars, client_state, run_frame, cancelled, discovered_urls, idx, stats,
                   fetched_urls, failed_urls, manifest, pending, failure, files, finals,
                   disc_reqs>>

\* One turn of the loop over self.steps: the step named name has ended as r.
ExecuteStep(name, r) ==
    LET u == discovered_urls[idx + 1] IN
    /\ run_pc = "pipeline"
    /\ step <= Len(PipelineSteps)
    /\ ~LoopBreaks(ctx)
    /\ StepsFor(out_format)[step] = name
    /\ ctx' = IF r.raised THEN OnStepException(r.ctx, name, r.e) ELSE r.ctx
    /\ step' = step + 1
    /\ failure' = IF r.raised \/ r.ctx.error # ctx.error
                  THEN [failure EXCEPT ![u] = name]
                  ELSE failure
    /\ executed' = Append(executed, [name |-> name, raised |-> r.raised, e |-> r.e])
    /\ collected' = collected \o StepEvents(name, u, ctx, r)
                    \o (IF r.raised
                        THEN <<[FetchEvent("fetch_failed", u) EXCEPT !.error = StepError(name, r.e)]>>
                        ELSE <<>>)
    /\ files' = IF r.ctx.saved /\ ~ctx.saved /\ out_format # "json"
                THEN [files EXCEPT ![out_format] = @ \cup {u}]
                ELSE files
    /\ UNCHANGED <<ext_vars, client_state, run_frame, cancelled, run_pc, discovered_urls,
                   idx, stats, fetched_urls, failed_urls, manifest, pending, stream, finals,
                   disc_reqs>>

\* ValidateStep: check_existing is True, so the outcome depends on whether
\* the output file is there.
ValidateStep(o) ==
    /\ run_pc = "pipeline"
    /\ o = "file_exists" => discovered_urls[idx + 1] \in files.markdown
    /\ o = "ok" => discovered_urls[idx + 1] \notin files.markdown
    /\ ExecuteStep("validate", ValidateExecute(ctx, o))
FetchStep(o) == ExecuteStep("fetch", FetchExecute(ctx, o))
MetadataStep == ExecuteStep("metadata", MetadataExecute(ctx))
ConvertStep(o) == ExecuteStep("convert", ConvertExecute(ctx, o))
SaveStep(o) ==
    ExecuteStep(SaveStepName(out_format),
                CASE out_format = "json" -> JsonSaveExecute(ctx, o)
                  [] out_format = "sqlite" ->
                       SqliteSaveExecute(ctx, o, discovered_urls[idx + 1] \in files.sqlite)
                  [] OTHER -> SaveExecute(ctx, o))

\* execute has returned: the collected events are yielded, and the
\* statistics and the cache are updated from ctx.
RecordResult ==
    /\ run_pc = "pipeline"
    /\ step > Len(PipelineSteps) \/ LoopBreaks(ctx)
    /\ stream' = stream \o collected
    /\ finals' = Append(finals, [url |-> discovered_urls[idx + 1], ctx |-> Some(ctx)])
    /\ stats' = CountResult(stats, ctx)
    /\ failed_urls' = IF ctx.error # "" /\ cache_enabled
                      THEN failed_urls \cup {discovered_urls[idx + 1]}
                      ELSE failed_urls
    /\ IF ctx.error = "" /\ ~ctx.should_skip /\ cache_enabled /\ ctx.markdown = "text"
       THEN /\ manifest' = manifest \cup {discovered_urls[idx + 1]}
            /\ fetched_urls' = fetched_urls \cup {discovered_urls[idx + 1]}
            /\ marked' = marked \cup {discovered_urls[idx + 1]}
       ELSE UNCHANGED <<manifest, fetched_urls, marked>>
    /\ idx' = idx + 1
    /\ run_pc' = "loop"
    /\ UNCHANGED <<ext_vars, client_state, run_config, cancelled, discovered_urls, step, ctx,
                   pending, failure, collected, executed, files, disc_reqs>>

\* The loop is over: the persisted list is cleared after a run without
\* failures, and completed is emitted.
RunComplete ==
    /\ run_pc = "loop"
    /\ idx = Len(discovered_urls)
    /\ pending' = IF cache_enabled /\ stats.pages_failed = 0 THEN ClearDiscoveredUrls ELSE pending
    /\ run_pc' = "completed"
    /\ stream' = Append(stream, FetchEvent("completed", ""))
    /\ UNCHANGED <<ext_vars, client_state, run_frame, cancelled, discovered_urls, idx, step,
                   ctx, stats, fetched_urls, failed_urls, manifest, failure, collected, executed,
                   files, finals, disc_reqs>>

\* The steps of the run itself
RunStep ==
    \/ \E urls \in UrlLists : DiscoveryComplete(urls)
    \/ RunCancelled
    \/ DryRunSkip
    \/ BeginPipeline
    \/ \E o \in ValidateOutcomes : ValidateStep(o)
    \/ \E o \in FetchOutcomes : FetchStep(o)
    \/ MetadataStep
    \/ \E o \in ConvertOutcomes : ConvertStep(o)
    \/ \E o \in SaveOutcomes : SaveStep(o)
    \/ RecordResult
    \/ RunComplete

NextRun == Cancel \/ RunStep

SpecRun == InitRun /\ [][NextRun]_vars

\* The URLs the loop is done with, and those among them whose pipeline failed
Processed == {discovered_urls[k] : k \in 1..idx}
Failed == {u \in Processed : failure[u] # "none"}

\* C9: a failure in one URL's pipeline (a fetch that raises after its last
\* retry, a conversion error, an I/O error at save) is recorded for that URL
\* only: pages_failed counts exactly the failed URLs, with caching on they and
\* no others are in the cache's failed set, and none of them is marked
\* fetched.  The run goes on: it is never stuck, it ends as cancelled only
\* when cancel() was called, and at completed every discovered URL has been
\* processed.
C9_UrlFailureRecorded ==
    /\ stats.pages_failed = Cardinality(Failed)
    /\ failed_urls = (IF cache_enabled THEN Failed ELSE {})
    /\ fetched_urls \cap Failed = {}
    /\ stats.pages_fetched + stats.pages_skipped + stats.pages_failed = idx
    /\ run_pc \in {"started", "loop", "pipeline", "completed", "cancelled"}
    /\ run_pc = "cancelled" => cancelled
    /\ run_pc = "completed" => idx = Len(discovered_urls)
    /\ run_pc \notin {"completed", "cancelled"} => ENABLED RunStep

\* C9 witness: with caching on, the first URL failed at save, the second was
\* fetched and saved, and the run completed.
C9_Witness ==
    /\ run_pc = "completed"
    /\ cache_enabled
    /\ Len(discovered_urls) = 2
    /\ failure[discovered_urls[1]] = "save"
    /\ failed_urls = {discovered_urls[1]}
    /\ fetched_urls = {discovered_urls[2]}
    /\ stats.pages_failed = 1
    /\ stats.pages_fetched = 1

\* ======================================================================
\* UrlValidator.validate (specification SpecValidate)
\* ======================================================================
\* The text of an authority is a sequence of tokens: the marks ":", "@", ".",
\* "[" and "]" are tokens of their own, and so is every run of characters
\* between them.  A URL is its scheme and the parts of its authority:
\* userinfo and host as token sequences, whether the host is written in
\* brackets, and the port ("" when absent).

\* Host names, IPv4 and IPv6 literals the URLs are written with
PublicName == <<"docs", ".", "example", ".", "com">>
HostNames ==
    { PublicName, <<"localhost">>, <<"LOCALHOST">>, <<"localhost", ".", "localdomain">>,
      <<"svc", ".", "internal">>, <<"printer", ".", "local">>, <<"app", ".", "localhost">>,
      <<"db", ".", "localdomain">> }
IPv4Literals ==
    { <<"93", ".", "184", ".", "216", ".", "34">>, <<"10", ".", "0", ".", "0", ".", "1">>,
      <<"127", ".", "0", ".", "0", ".", "1">>, <<"169", ".", "254", ".", "169", ".", "254">>,
      <<"192", ".", "168", ".", "1", ".", "1">>, <<"172", ".", "16", ".", "0", ".", "1">>,
      <<"240", ".", "0", ".", "0", ".", "1">> }
IPv6Literals ==
    { <<":", ":", "1">>, <<"fe80", ":", ":", "1">>, <<"fec0", ":", ":", "1">>,
      <<"fc00", ":", ":", "1">>, <<"2606", ":", "4700", ":", ":", "1111">> }

UserInfos == { <<>>, <<"user">>, <<"user", ":", "secret">> }
Ports == { "", "8443" }

ValidatorURLs ==
    { [scheme |-> sc, userinfo |-> ui, host |-> h, bracketed |-> FALSE, port |-> p] :
        sc \in {"https", "http"}, ui \in UserInfos, h \in HostNames \cup IPv4Literals, p \in Ports }
    \cup
    { [scheme |-> "https", userinfo |-> ui, host |-> h, bracketed |-> TRUE, port |-> p] :
        ui \in UserInfos, h \in IPv6Literals, p \in Ports }

\* urlparse(url).netloc
NetlocTokens(u) ==
    (IF u.userinfo # <<>> THEN u.userinfo \o <<"@">> ELSE <<>>)
    \o (IF u.bracketed THEN <<"[">> \o u.host \o <<"]">> ELSE u.host)
    \o (IF u.port # "" THEN <<":", u.port>> ELSE <<>>)

\* text.split(":")[0]
RECURSIVE BeforeFirstColon(_)
BeforeFirstColon(text) ==
    IF text = <<>> \/ Head(text) = ":" THEN <<>>
    ELSE <<Head(text)>> \o BeforeFirstColon(Tail(text))

\* str.lower()
LowerToken(tok) ==
    CASE tok = "LOCALHOST" -> "localhost"
      [] tok = "EXAMPLE" -> "example"
      [] tok = "HTTPS" -> "https"
      [] OTHER -> tok
Lower(text) == [k \in DOMAIN text |-> LowerToken(text[k])]

\* str.endswith(suffix)
EndsWith(text, suffix) ==
    /\ Len(text) >= Len(suffix)
    /\ SubSeq(text, Len(text) - Len(suffix) + 1, Len(text)) = suffix

allowed_schemes == {"https"}
INTERNAL_SUFFIXES ==
    { <<".", "internal">>, <<".", "local">>, <<".", "localhost">>, <<".", "localdomain">> }
LOCALHOST_NAMES == { <<"localhost">>, <<"localhost", ".", "localdomain">> }

\* int(octet) for the decimal strings in use
OctetValue(tok) ==
    CASE tok = "0" -> 0 [] tok = "1" -> 1 [] tok = "10" -> 10 [] tok = "16" -> 16
      [] tok = "34" -> 34 [] tok = "93" -> 93 [] tok = "127" -> 127 [] tok = "168" -> 168
      [] tok = "169" -> 169 [] tok = "172" -> 172 [] tok = "184" -> 184 [] tok = "192" -> 192
      [] tok = "216" -> 216 [] tok = "240" -> 240 [] tok = "254" -> 254
      [] OTHER -> -1
HexGroups == {"1", "fe80", "fec0", "fc00", "2606", "4700", "1111"}

\* ipaddress.ip_address(text): an IPv4Address, an IPv6Address, or ValueError
\* ("none").  Brackets, userinfo and names are not part of an address.
IpAddress(text) ==
    IF /\ Len(text) = 7
       /\ \A k \in {2, 4, 6} : text[k] = "."
       /\ \A k \in {1, 3, 5, 7} : OctetValue(text[k]) >= 0
    THEN [kind |-> "v4", octets |-> <<OctetValue(text[1]), OctetValue(text[3]),
                                      OctetValue(text[5]), OctetValue(text[7])>>]
    ELSE IF /\ Len(text) >= 3
            /\ \A k \in DOMAIN text : text[k] \in HexGroups \cup {":"}
            /\ \E k \in DOMAIN text : text[k] = ":"
    THEN [kind |-> "v6", groups |-> text]
    ELSE [kind |-> "none"]

\* is_private or is_loopback or is_link_local or is_reserved, and for IPv6
\* is_site_local
IpBlocked(ip) ==
    IF ip.kind = "v4"
    THEN LET a == ip.octets[1]
             b == ip.octets[2]
             c == ip.octets[3]
         IN  \/ a \in {0, 10, 127}
             \/ a = 172 /\ b \in 16..31
             \/ a = 192 /\ b = 168
             \/ a = 169 /\ b = 254
             \/ a = 192 /\ b = 0 /\ c \in {0, 2}
             \/ a = 198 /\ (b \in {18, 19} \/ (b = 51 /\ c = 100))
             \/ a = 203 /\ b = 0 /\ c = 113
             \/ a >= 240
    ELSE IF ip.kind = "v6"
    THEN \/ ip.groups = <<":", ":", "1">>
         \/ ip.groups[1] \in {"fe80", "fec0", "fc00"}
    ELSE FALSE

\* _check_ip_address(hostname) is not None
CheckIpAddress(hostname) == IpBlocked(IpAddress(hostname))

\* parsed.netloc.split(":")[0].lower()
ExtractHostname(u) == Lower(BeforeFirstColon(NetlocTokens(u)))

\* validate(url).is_valid
IsValid(u) ==
    LET hostname == ExtractHostname(u)
    IN  /\ u.scheme \in allowed_schemes
        /\ NetlocTokens(u) # <<>>
        /\ hostname \notin LOCALHOST_NAMES
        /\ \A suffix \in INTERNAL_SUFFIXES : ~EndsWith(hostname, suffix)
        /\ ~CheckIpAddress(hostname)

InitValidate ==
    /\ ClientInit
    /\ FetcherInit("idle", FALSE, FALSE)
    /\ val_url \in ValidatorURLs
    /\ val_result = "none"
    /\ RestIdle

\* result = validator.validate(url)
Validate ==
    /\ val_result = "none"
    /\ val_result' = IF IsValid(val_url) THEN "valid" ELSE "invalid"
    /\ UNCHANGED <<client_state, run_vars, val_url, rest_vars>>

NextValidate == Validate

SpecValidate == InitValidate /\ [][NextValidate]_vars

\* The host of a URL as the request goes to it: lower case, without
\* userinfo, brackets and port.
HostOf(u) == Lower(u.host)

\* The hosts that must be rejected
ForbiddenHost(h) ==
    \/ h \in LOCALHOST_NAMES
    \/ \E suffix \in INTERNAL_SUFFIXES : EndsWith(h, suffix)
    \/ IpBlocked(IpAddress(h))

\* C11 (as claimed): validate returns is_valid = false for every URL whose
\* host is a localhost name, has an internal suffix or is a private,
\* loopback, link-local, reserved or site-local address, however the
\* authority is written (port, userinfo, bracketed IPv6).
C11_ForbiddenHostRejected ==
    (val_result # "none" /\ ForbiddenHost(HostOf(val_url))) => val_result = "invalid"


\* ---------------------------------------------------------------------------
\* RobotsChecker (security/robots.py).  requests.get is a blocking call made
\* from the event loop's thread, so each public method runs to completion
\* before any other code of the program does.
\* ---------------------------------------------------------------------------

\* A page URL: the authority as the validator sees it, the path as its
\* sequence of segments, and the fragment ("" when there is none).
PageUrl(h, q, f) ==
    [scheme |-> "https", userinfo |-> <<>>, host |-> h, bracketed |-> FALSE, port |-> "",
     path |-> q, fragment |-> f]

ApiName == <<"api", ".", "example", ".", "com">>

\* Pages of two sites.
RobotsURLs ==
    { PageUrl(h, q, "") : h \in {PublicName, ApiName}, q \in {<<"a">>, <<"private", "x">>} }

\* RobotsChecker._get_domain
GetDomain(u) == NetlocTokens(u)

Domains == {GetDomain(u) : u \in RobotsURLs}

\* The rules a robots.txt gives the user agent: Disallow prefixes (<<>> is
\* "Disallow: /"), Crawl-delay and Sitemap lines.
RobotsBody(dis, crawl, maps) == [disallow |-> dis, crawl_delay |-> crawl, sitemaps |-> maps]

RobotsBodies ==
    { RobotsBody({}, None, <<>>),
      RobotsBody({<<"private">>}, Some(4), <<"sitemap.xml">>),
      RobotsBody({<<>>}, None, <<>>) }

\* What requests.get(robots_url) can do: raise RequestException (failed), or
\* return a response with a status and a text.
RobotsResponses ==
    { [failed |-> TRUE, status |-> 0, body |-> RobotsBody({}, None, <<>>)] } \cup
    { [failed |-> FALSE, status |-> s, body |-> RobotsBody({}, None, <<>>)] : s \in {404, 403, 500} } \cup
    { [failed |-> FALSE, status |-> 200, body |-> b] : b \in RobotsBodies }

\* RobotsChecker._fetch_robots: the parser for a 200, None otherwise.
FetchRobots(resp) ==
    IF ~resp.failed /\ resp.status = 200 THEN Some(resp.body) ELSE None

IsPrefix(p, s) == Len(p) <= Len(s) /\ SubSeq(s, 1, Len(p)) = p

\* RobotFileParser.can_fetch(user_agent, url)
CanFetch(parser, u) == ~\E r \in parser.disallow : IsPrefix(r, u.path)

\* Faulty variant: a cached None counts as "not cached", so a failed fetch is
\* tried again on the next call.
NeedsFetchWhenNone(cache, domain) ==
    domain \notin DOMAIN cache \/ cache[domain] = None

\* _get_parser: `if domain not in self._cache`
NeedsFetch(cache, domain) == domain \notin DOMAIN cache

\* _get_parser: the cache after the call, given what a fetch would return.
GetParserCache(cache, u, resp) ==
    IF NeedsFetch(cache, GetDomain(u)) THEN Put(cache, GetDomain(u), FetchRobots(resp)) ELSE cache

\* The outcomes of the requests made for a domain's robots.txt so far.
RequestsOf(log, domain) == Get(log, domain, <<>>)

\* _get_parser: the request log after the call (0 stands for a
\* RequestException).
GetParserLog(cache, log, u, resp) ==
    IF NeedsFetch(cache, GetDomain(u))
    THEN Put(log, GetDomain(u),
             Append(RequestsOf(log, GetDomain(u)), IF resp.failed THEN 0 ELSE resp.status))
    ELSE log

\* RobotsChecker.is_allowed, on the cache _get_parser leaves.
IsAllowed(cache, u) ==
    LET parser == cache[GetDomain(u)] IN
    IF parser = None THEN TRUE ELSE CanFetch(parser[1], u)

\* RobotsChecker.get_crawl_delay
GetCrawlDelay(cache, u) ==
    LET parser == cache[GetDomain(u)] IN
    IF parser = None THEN None ELSE parser[1].crawl_delay

\* RobotsChecker.get_sitemaps
GetSitemaps(cache, u) ==
    LET parser == cache[GetDomain(u)] IN
    IF parser = None THEN <<>> ELSE parser[1].sitemaps

InitRobots == Init

\* One call of a public method: _get_parser, then the method's own answer.
RobotsCall(op, u, resp) ==
    /\ NeedsFetch(robots_cache, GetDomain(u)) => Len(RequestsOf(robots_log, GetDomain(u))) < MaxFetches
    /\ robots_cache' = GetParserCache(robots_cache, u, resp)
    /\ robots_log' = GetParserLog(robots_cache, robots_log, u, resp)
    /\ robots_call' =
         [op |-> op, domain |-> GetDomain(u),
          allowed |-> IF op = "is_allowed" THEN IsAllowed(robots_cache', u) ELSE TRUE,
          delay |-> IF op = "get_crawl_delay" THEN GetCrawlDelay(robots_cache', u) ELSE None,
          sitemaps |-> IF op = "get_sitemaps" THEN GetSitemaps(robots_cache', u) ELSE <<>>]
    /\ UNCHANGED not_robots

CallIsAllowed == \E u \in RobotsURLs, resp \in RobotsResponses : RobotsCall("is_allowed", u, resp)

CallGetCrawlDelay == \E u \in RobotsURLs, resp \in RobotsResponses : RobotsCall("get_crawl_delay", u, resp)

CallGetSitemaps == \E u \in RobotsURLs, resp \in RobotsResponses : RobotsCall("get_sitemaps", u, resp)

NextRobots == CallIsAllowed \/ CallGetCrawlDelay \/ CallGetSitemaps

SpecRobots == InitRobots /\ [][NextRobots]_vars

\* The first fetch of the domain's robots.txt did not give a 200.
FetchFailed(d) == RequestsOf(robots_log, d) # <<>> /\ Head(RequestsOf(robots_log, d)) # 200

\* C12: once the fetch of a domain's robots.txt has failed or returned a
\* status other than 200, no later call requests it again and every later
\* is_allowed for that domain answers true.
C12_StickyPermissive ==
    [][\A d \in Domains :
         FetchFailed(d) =>
           /\ RequestsOf(robots_log', d) = RequestsOf(robots_log, d)
           /\ (robots_call'.op = "is_allowed" /\ robots_call'.domain = d) => robots_call'.allowed]_vars

\* Both sites' robots.txt fetches failed differently, and is_allowed was then
\* answered from the cache.
C12_Witness ==
    /\ \A d \in Domains : FetchFailed(d)
    /\ \E d \in Domains : Head(RequestsOf(robots_log, d)) = 500
    /\ robots_call.op = "is_allowed" /\ robots_call.allowed


\* ---------------------------------------------------------------------------
\* URL discovery (discovery/filters.py, sitemap.py, crawler.py, composite.py).
\* A sub-discoverer is an async generator whose yields depend only on what
\* the site serves, so it is computed as the sequence it yields; the
\* composite discoverer's loop is a state machine consuming that sequence
\* one URL at a time.  No include/exclude paths are configured
\* (pattern_filter is None), and the seed is a page, not an .xml file.
\* ---------------------------------------------------------------------------

\* CrawlConfig.max_depth
max_depth == 5

\* SitemapDiscoverer.MAX_SITEMAP_DEPTH
MAX_SITEMAP_DEPTH == 5

\* Fetcher.__aenter__: CompositeDiscoverer(fallback_threshold=5); the tests
\* construct it with 1.
FallbackThresholds == {1, 5}

StartUrl == PageUrl(PublicName, <<>>, "")
PageA == PageUrl(PublicName, <<"a">>, "")
PageAUpper == PageUrl(<<"docs", ".", "EXAMPLE", ".", "com">>, <<"a">>, "top")
PageB == PageUrl(PublicName, <<"b">>, "")
PagePrivate == PageUrl(PublicName, <<"private", "x">>, "")
PageLocal == PageUrl(<<"localhost">>, <<"a">>, "")

DiscoverPages == {PageA, PageAUpper, PageB, PagePrivate, PageLocal}

PageLists == UNION { [1..n -> DiscoverPages] : n \in 0..MaxListed }

LinkLists == UNION { [1..n -> DiscoverPages \ {PageA}] : n \in 0..MaxListed }

\* A parsed sitemap: (page_urls, sitemap_urls)
Sitemap(pages, nested) == [pages |-> pages, nested |-> nested]

\* What the site serves at /sitemap.xml: nothing, or a urlset.
SitemapXmlFiles ==
    { <<>> } \cup { "sitemap.xml" :> Sitemap(l, <<>>) : l \in PageLists }

\* What it serves at /sitemap_index.xml: nothing, an index of one urlset, or
\* an index that lists itself.
SitemapIndexFiles ==
    { <<>>,
      ("sitemap_index.xml" :> Sitemap(<<>>, <<"pages.xml">>))
         @@ ("pages.xml" :> Sitemap(<<PageAUpper, PageB>>, <<>>)),
      "sitemap_index.xml" :> Sitemap(<<PageA>>, <<"sitemap_index.xml">>) }

\* The robots.txt of the site: none, or one that disallows /private.
SiteRobots ==
    { r \in RobotsResponses :
        \/ ~r.failed /\ r.status = 404
        \/ ~r.failed /\ r.status = 200 /\ r.body.disallow = {<<"private">>} }

MaxUrlsValues == {None} \cup {Some(n) : n \in 0..MaxUrls}

DiscoverConfigs ==
    { [files |-> x @@ y,
       links |-> (StartUrl :> l) @@ (PageB :> <<PageA, StartUrl>>),
       robots |-> r, max_urls |-> mx, crawler |-> c, fallback_threshold |-> th] :
        x \in SitemapXmlFiles, y \in SitemapIndexFiles, l \in LinkLists, r \in SiteRobots,
        mx \in MaxUrlsValues, c \in BOOLEAN, th \in FallbackThresholds }

\* path.rstrip("/") or "/": a trailing empty segment is a trailing slash.
RECURSIVE RStripSlash(_)
RStripSlash(path) ==
    IF path # <<>> /\ path[Len(path)] = "" THEN RStripSlash(SubSeq(path, 1, Len(path) - 1))
    ELSE path

\* Faulty variant: the URL text itself is the key.
NormalizeUrlVerbatim(u) ==
    [scheme |-> u.scheme, netloc |-> NetlocTokens(u), path |-> u.path, fragment |-> u.fragment]

\* normalize_url, basic normalization: scheme and netloc lowercased, trailing
\* slashes stripped, fragment removed.
NormalizeUrl(u) ==
    [scheme |-> LowerToken(u.scheme), netloc |-> Lower(NetlocTokens(u)),
     path |-> RStripSlash(u.path), fragment |-> ""]

\* max_urls - count if max_urls is not None else None
Remaining(max_urls, count) == IF max_urls = None THEN None ELSE Some(max_urls[1] - count)

\* max_urls is not None and count >= max_urls
CapReached(max_urls, count) == max_urls # None /\ count >= max_urls[1]

\* SitemapDiscoverer._fetch_sitemap then _parse_sitemap: None unless the site
\* serves a sitemap there.
FetchSitemap(cfg, loc) == IF loc \in DOMAIN cfg.files THEN Some(cfg.files[loc]) ELSE None

\* _discover_from_sitemap, the loop over page_urls; count is Len(out).
RECURSIVE PagesLoop(_, _, _, _)
PagesLoop(pages, max_urls, seen, out) ==
    IF pages = <<>> THEN [out |-> out, seen |-> seen, returned |-> FALSE]
    ELSE IF CapReached(max_urls, Len(out)) THEN [out |-> out, seen |-> seen, returned |-> TRUE]
    ELSE IF ~IsValid(Head(pages)) THEN PagesLoop(Tail(pages), max_urls, seen, out)
    ELSE IF NormalizeUrl(Head(pages)) \in seen THEN PagesLoop(Tail(pages), max_urls, seen, out)
    ELSE PagesLoop(Tail(pages), max_urls, seen \cup {NormalizeUrl(Head(pages))},
                   Append(out, Head(pages)))

\* SitemapDiscoverer._discover_from_sitemap and its loop over nested sitemaps:
\* what the call yields after `out`, and the seen-set it leaves.
RECURSIVE FromSitemap(_, _, _, _, _)
RECURSIVE NestedLoop(_, _, _, _, _, _)
FromSitemap(cfg, loc, depth, max_urls, seen) ==
    IF depth > MAX_SITEMAP_DEPTH \/ FetchSitemap(cfg, loc) = None
    THEN [out |-> <<>>, seen |-> seen]
    ELSE LET content == FetchSitemap(cfg, loc)[1]
             p == PagesLoop(content.pages, max_urls, seen, <<>>)
         IN  IF p.returned THEN [out |-> p.out, seen |-> p.seen]
             ELSE NestedLoop(cfg, content.nested, depth, Remaining(max_urls, Len(p.out)),
                             p.seen, p.out)

NestedLoop(cfg, nested, depth, remaining, seen, out) ==
    IF nested = <<>> THEN [out |-> out, seen |-> seen]
    ELSE IF remaining # None /\ remaining[1] <= 0 THEN [out |-> out, seen |-> seen]
    ELSE LET sub == FromSitemap(cfg, Head(nested), depth + 1, remaining, seen)
             left == Remaining(remaining, Len(sub.out))
         IN  IF sub.out # <<>> /\ left # None /\ left[1] <= 0
             THEN [out |-> out \o sub.out, seen |-> sub.seen]
             ELSE NestedLoop(cfg, Tail(nested), depth, left, sub.seen, out \o sub.out)

\* SitemapDiscoverer._guess_sitemap_urls
GuessSitemapUrls ==
    <<"sitemap.xml", "sitemap_index.xml", "sitemap/sitemap.xml", "sitemaps/sitemap.xml">>

\* SitemapDiscoverer.discover, the loop over the guessed locations.
RECURSIVE ProbeLoop(_, _, _, _, _)
ProbeLoop(cfg, probes, max_urls, seen, out) ==
    IF probes = <<>> THEN out
    ELSE LET sub == FromSitemap(cfg, Head(probes), 0, Remaining(max_urls, Len(out)), seen)
         IN  IF sub.out # <<>> /\ CapReached(max_urls, Len(out) + Len(sub.out))
             THEN out \o sub.out
             ELSE ProbeLoop(cfg, Tail(probes), max_urls, sub.seen, out \o sub.out)

\* SitemapDiscoverer.discover(start_url, max_urls=max_urls): the URLs it
\* yields, in order.
SitemapDiscover(cfg, max_urls) == ProbeLoop(cfg, GuessSitemapUrls, max_urls, {}, <<>>)

\* self._robots.is_allowed(url), the site's robots.txt being what it is.
RobotsAllows(cfg, u) == IsAllowed(GetParserCache(<<>>, u, cfg.robots), u)

\* DomainFilter(start_url, allow_subdomains=False).should_include
DomainInclude(start, u) == Lower(NetlocTokens(u)) = Lower(NetlocTokens(start))

\* LinkCrawler._should_crawl
ShouldCrawl(cfg, start, u) ==
    /\ IsValid(u)
    /\ RobotsAllows(cfg, u)
    /\ DomainInclude(start, u)

\* link_extractor.extract_links(current_url): [] when the page has no links
\* or cannot be fetched.
ExtractLinks(cfg, u) == Get(cfg.links, u, <<>>)

\* LinkCrawler.discover, the loop over the links of one page; count is
\* Len(st.out).
RECURSIVE LinksLoop(_, _, _, _, _, _)
LinksLoop(cfg, start, links, depth, max_urls, st) ==
    IF links = <<>> THEN st
    ELSE IF NormalizeUrl(Head(links)) \in st.seen
    THEN LinksLoop(cfg, start, Tail(links), depth, max_urls, st)
    ELSE LET seen1 == st.seen \cup {NormalizeUrl(Head(links))}
             out1 == Append(st.out, Head(links))
         IN  IF ~ShouldCrawl(cfg, start, Head(links))
             THEN LinksLoop(cfg, start, Tail(links), depth, max_urls, [st EXCEPT !.seen = seen1])
             ELSE IF CapReached(max_urls, Len(out1))
             THEN [st EXCEPT !.seen = seen1, !.out = out1, !.returned = TRUE]
             ELSE LinksLoop(cfg, start, Tail(links), depth, max_urls,
                            [st EXCEPT !.seen = seen1, !.out = out1,
                                       !.queue = IF depth + 1 < max_depth
                                                 THEN Append(@, [url |-> Head(links), depth |-> depth + 1])
                                                 ELSE @])

\* LinkCrawler.discover, the loop over the BFS queue.
RECURSIVE QueueLoop(_, _, _, _)
QueueLoop(cfg, start, max_urls, st) ==
    IF st.queue = <<>> \/ st.returned THEN st.out
    ELSE LET cur == Head(st.queue)
             rest == [st EXCEPT !.queue = Tail(@)]
         IN  IF cur.depth >= max_depth THEN QueueLoop(cfg, start, max_urls, rest)
             ELSE QueueLoop(cfg, start, max_urls,
                            LinksLoop(cfg, start, ExtractLinks(cfg, cur.url), cur.depth,
                                      max_urls, rest))

\* LinkCrawler.discover(start_url, max_urls=max_urls): the URLs it yields, in
\* order.  The start URL is yielded before the cap is looked at.
CrawlerDiscover(cfg, start, max_urls) ==
    LET first == IF ShouldCrawl(cfg, start, start) THEN <<start>> ELSE <<>>
    IN  QueueLoop(cfg, start, max_urls,
                  [seen |-> {NormalizeUrl(start)},
                   queue |-> <<[url |-> start, depth |-> 0]>>,
                   out |-> first,
                   returned |-> first # <<>> /\ CapReached(max_urls, 1)])

\* One discover call on a freshly constructed CompositeDiscoverer.
InitDiscover ==
    /\ ClientInit
    /\ FetcherInit("idle", FALSE, FALSE)
    /\ ValidatorIdle
    /\ RobotsIdle
    /\ DedupIdle
    /\ PagesIdle
    /\ FlushIdle
    /\ MoreIdle
    /\ disc_cfg \in DiscoverConfigs
    /\ disc_pc = "idle"
    /\ disc_src = <<>>
    /\ disc_pos = 0
    /\ disc_count = 0
    /\ disc_sitemap_count = 0
    /\ disc_seen = {}
    /\ disc_out = <<>>
    /\ disc_crawled = FALSE

\* discover, up to the first iteration over self._sitemap.discover
DiscoverStart ==
    /\ disc_pc = "idle"
    /\ disc_pc' = "sitemap"
    /\ disc_seen' = {}
    /\ disc_count' = 0
    /\ disc_sitemap_count' = 0
    /\ disc_src' = SitemapDiscover(disc_cfg, disc_cfg.max_urls)
    /\ disc_pos' = 0
    /\ UNCHANGED <<not_discover, disc_cfg, disc_out, disc_crawled>>

\* SeenUrlTracker.add(url) returned True
SeenAdd(seen, u) == NormalizeUrl(u) \notin seen

\* One iteration of either loop of discover over the URL the sub-discoverer
\* yields next.
ConsumeNext(phase) ==
    LET u == disc_src[disc_pos + 1]
    IN  /\ disc_pc = phase
        /\ disc_pos < Len(disc_src)
        /\ disc_pos' = disc_pos + 1
        /\ IF SeenAdd(disc_seen, u)
           THEN /\ disc_seen' = disc_seen \cup {NormalizeUrl(u)}
                /\ disc_out' = Append(disc_out, u)
                /\ disc_count' = disc_count + 1
                /\ disc_sitemap_count' =
                     IF phase = "sitemap" THEN disc_sitemap_count + 1 ELSE disc_sitemap_count
                /\ disc_pc' = IF CapReached(disc_cfg.max_urls, disc_count + 1) THEN "done" ELSE phase
           ELSE UNCHANGED <<disc_seen, disc_out, disc_count, disc_sitemap_count, disc_pc>>
        /\ UNCHANGED <<not_discover, disc_cfg, disc_src, disc_crawled>>

SitemapNext == ConsumeNext("sitemap")

\* The sitemap phase is over: return, or start the crawler.
SitemapExhausted ==
    /\ disc_pc = "sitemap"
    /\ disc_pos = Len(disc_src)
    /\ IF ~disc_cfg.crawler \/ disc_sitemap_count >= disc_cfg.fallback_threshold
       THEN /\ disc_pc' = "done"
            /\ UNCHANGED <<disc_src, disc_pos, disc_crawled>>
       ELSE /\ disc_pc' = "crawl"
            /\ disc_src' = CrawlerDiscover(disc_cfg, StartUrl,
                                           Remaining(disc_cfg.max_urls, disc_count))
            /\ disc_pos' = 0
            /\ disc_crawled' = TRUE
    /\ UNCHANGED <<not_discover, disc_cfg, disc_seen, disc_out, disc_count, disc_sitemap_count>>

CrawlNext == ConsumeNext("crawl")

CrawlExhausted ==
    /\ disc_pc = "crawl"
    /\ disc_pos = Len(disc_src)
    /\ disc_pc' = "done"
    /\ UNCHANGED <<not_discover, disc_cfg, disc_src, disc_pos, disc_seen, disc_out, disc_count,
                   disc_sitemap_count, disc_crawled>>

NextDiscover ==
    DiscoverStart \/ SitemapNext \/ SitemapExhausted \/ CrawlNext \/ CrawlExhausted

SpecDiscover == InitDiscover /\ [][NextDiscover]_vars

\* C13: every URL the composite discoverer yields passes the URL validator
\* and is allowed by the site's robots.txt.  It fails: the sitemap phase never
\* asks the robots checker.
C13_YieldedValidAndAllowed ==
    \A k \in DOMAIN disc_out : IsValid(disc_out[k]) /\ RobotsAllows(disc_cfg, disc_out[k])


\* The canonical form of a URL: scheme and host lowercased, fragment removed.
Canonical(u) == [u EXCEPT !.scheme = LowerToken(@), !.host = Lower(@), !.fragment = ""]

C15_AtMostMaxUrls ==
    disc_cfg.max_urls # None => Len(disc_out) <= disc_cfg.max_urls[1]

\* s is t with some elements left out.
RECURSIVE IsSubsequence(_, _)
IsSubsequence(s, t) ==
    IF s = <<>> THEN TRUE
    ELSE IF t = <<>> THEN FALSE
    ELSE IF Head(s) = Head(t) THEN IsSubsequence(Tail(s), Tail(t))
    ELSE IsSubsequence(s, Tail(t))

\* C16: once the sitemap phase is over, the crawler's discover has been run
\* if and only if a crawler is configured, the cap has not been reached and
\* the sitemap phase yielded fewer URLs than fallback_threshold; the sitemap
\* URLs come first, then the crawler's, each in the order discovered.  It
\* fails for the cap 0, which is reached before anything is yielded.
C16_CrawlerFallback ==
    /\ disc_pc \in {"crawl", "done"} =>
         (disc_crawled <=>
            /\ disc_cfg.crawler
            /\ ~CapReached(disc_cfg.max_urls, disc_sitemap_count)
            /\ disc_sitemap_count < disc_cfg.fallback_threshold)
    /\ IsSubsequence(SubSeq(disc_out, 1, disc_sitemap_count),
                     SitemapDiscover(disc_cfg, disc_cfg.max_urls))
    /\ disc_crawled =>
         IsSubsequence(SubSeq(disc_out, disc_sitemap_count + 1, Len(disc_out)),
                       CrawlerDiscover(disc_cfg, StartUrl,
                                       Remaining(disc_cfg.max_urls, disc_sitemap_count)))


\* ---------------------------------------------------------------------------
\* StreamingDeduplicator (cache/streaming_dedup.py).  Several
\* check_and_register calls are pending at once; a call computes its hash,
\* takes the lock when it is free, and runs the locked block, which has no
\* suspension point, in one step.
\* ---------------------------------------------------------------------------

\* What a caller can pass as content: a str or the bytes of a text.
Contents ==
    { [kind |-> "str", text |-> "x"], [kind |-> "bytes", text |-> "x"],
      [kind |-> "str", text |-> "y"] }

\* compute_hash: a str is encoded as UTF-8 first, and SHA-256 tells the byte
\* strings in use apart.
ComputeHash(content) == content.text

\* check_and_register, the return value of the locked block
CheckResult(seen, h) == IF h \in DOMAIN seen THEN <<FALSE, Some(seen[h])>> ELSE <<TRUE, None>>

\* Faulty variant: the URL is registered even when the hash is already there.
RegisterLatest(seen, h, u) == Put(seen, h, u)

\* check_and_register, self._seen after the locked block
Register(seen, h, u) == IF h \in DOMAIN seen THEN seen ELSE Put(seen, h, u)

InitDedup == Init

\* check_and_register(url, content) is called: content_hash is computed.
DedupCall(c, u, content) ==
    /\ dedup_pc[c] = "idle"
    /\ dedup_pc' = [dedup_pc EXCEPT ![c] = "acquire"]
    /\ dedup_arg' = [dedup_arg EXCEPT ![c] = [url |-> u, hash |-> ComputeHash(content)]]
    /\ UNCHANGED <<not_dedup, dedup_seen, dedup_lock, dedup_total_checked,
                   dedup_duplicates_found, dedup_ret, dedup_order>>

\* async with self._lock: entered once the lock is free
DedupAcquire(c) ==
    /\ dedup_pc[c] = "acquire"
    /\ dedup_lock = 0
    /\ dedup_lock' = c
    /\ dedup_pc' = [dedup_pc EXCEPT ![c] = "locked"]
    /\ UNCHANGED <<not_dedup, dedup_seen, dedup_total_checked, dedup_duplicates_found,
                   dedup_arg, dedup_ret, dedup_order>>

\* The locked block, the release of the lock and the return.
DedupBody(c) ==
    LET h == dedup_arg[c].hash
    IN  /\ dedup_pc[c] = "locked"
        /\ dedup_total_checked' = dedup_total_checked + 1
        /\ dedup_duplicates_found' =
             IF h \in DOMAIN dedup_seen THEN dedup_duplicates_found + 1 ELSE dedup_duplicates_found
        /\ dedup_ret' = [dedup_ret EXCEPT ![c] = CheckResult(dedup_seen, h)]
        /\ dedup_seen' = Register(dedup_seen, h, dedup_arg[c].url)
        /\ dedup_order' = Append(dedup_order, c)
        /\ dedup_lock' = 0
        /\ dedup_pc' = [dedup_pc EXCEPT ![c] = "returned"]
        /\ UNCHANGED <<not_dedup, dedup_arg>>

NextDedup ==
    \/ \E c \in Calls, u \in PageURLs, content \in Contents : DedupCall(c, u, content)
    \/ \E c \in Calls : DedupAcquire(c)
    \/ \E c \in Calls : DedupBody(c)

SpecDedup == InitDedup /\ [][NextDedup]_vars

\* The calls that have returned, with hash h.
ReturnedWith(h) == {c \in Calls : dedup_pc[c] = "returned" /\ dedup_arg[c].hash = h}

\* Call c went through the lock before call d.
Before(c, d) ==
    \E i, j \in DOMAIN dedup_order : i < j /\ dedup_order[i] = c /\ dedup_order[j] = d

\* C17: whatever the interleaving, among the calls with one content hash
\* exactly one returned (True, None), it was the first to register the hash,
\* and every other one returned (False, U) with U the URL of that first call.
C17_FirstRegistrationWins ==
    \A h \in {ComputeHash(content) : content \in Contents} :
        ReturnedWith(h) # {} =>
            \E f \in ReturnedWith(h) :
                /\ dedup_ret[f] = <<TRUE, None>>
                /\ \A c \in ReturnedWith(h) \ {f} :
                     /\ Before(f, c)
                     /\ dedup_ret[c] = <<FALSE, Some(dedup_arg[f].url)>>

\* Three calls with the same bytes, from three URLs, were pending together and
\* have all returned: one registered, two were told of it.
C17_Witness ==
    /\ \A c \in Calls : dedup_pc[c] = "returned" /\ dedup_arg[c].hash = "x"
    /\ Cardinality({dedup_arg[c].url : c \in Calls}) >= 3
    /\ dedup_order[1] # 1
    /\ Cardinality({c \in Calls : dedup_ret[c][1]}) = 1
    /\ dedup_duplicates_found = NumCalls - 1


\* ---------------------------------------------------------------------------
\* The pipeline with page content (Fetcher.__aenter__, pipeline/steps/*.py):
\* one run over the discovered URLs in which every URL is valid, allowed
\* and served with status 200 and HTML, so that what ConvertStep, DedupStep
\* and the save step do with the content decides the outcome.
\* ---------------------------------------------------------------------------

\* The HTML documents the site can serve.
HtmlDocs == {"<h1>Guide</h1>", "<h1>Other</h1>"}

\* OutputConfig.format
OutputFormats == {"markdown", "json", "sqlite"}

PageConfigs ==
    { [html |-> h, format |-> f, streaming_dedup |-> d] :
        h \in [PageURLs -> HtmlDocs], f \in OutputFormats, d \in BOOLEAN }

\* The orders in which discovery can deliver the three pages.
PageOrders ==
    { l \in [1..3 -> PageURLs] : \A a, b \in 1..3 : a # b => l[a] # l[b] }

\* Fetcher.__aenter__: the steps of the pipeline, DedupStep only with
\* streaming dedup, and the save step of the output format last.
StepsOf(cfg) ==
    <<"validate", "fetch", "metadata", "convert">>
    \o (IF cfg.streaming_dedup THEN <<"dedup">> ELSE <<>>)
    \o <<"save">>

\* PageContext(url=url, output_path=output_path)
PageContext(u) ==
    [url |-> u, should_skip |-> FALSE, error |-> "", html |-> None, title |-> None,
     markdown |-> None, saved |-> FALSE]

\* MetadataStep: the title found in the HTML
TitleOf(html) == html

\* HtmlToMarkdown.convert(extracted_html, url) on documents without relative
\* links: the text depends on the HTML alone.
ToMarkdown(html, u) == html

\* FrontmatterBuilder.build(title=ctx.title, url=ctx.url): the title and
\* "source: {url}" lines between the --- delimiters.
BuildFrontmatter(title, u) == [title |-> title, source |-> u]

\* Fetcher.__aenter__: add_frontmatter = self.config.output.format == "markdown"
AddFrontmatter(format) == format = "markdown"

\* ConvertStep.execute: ctx.markdown, the frontmatter (None without) and
\* the converted text.
ConvertPage(c, format) ==
    [c EXCEPT !.markdown =
        Some([frontmatter |-> IF AddFrontmatter(format)
                              THEN Some(BuildFrontmatter(c.title[1], c.url)) ELSE None,
              text |-> ToMarkdown(c.html[1], c.url)])]

\* DedupStep.execute: the content to hash (hash_markdown is True)
DedupContent(c) ==
    IF c.markdown # None THEN [kind |-> "str", text |-> c.markdown[1]]
    ELSE [kind |-> "bytes", text |-> c.html[1]]

\* One run of the loop of Fetcher.run over three pages.
InitPages ==
    /\ ClientInit
    /\ adaptive
    /\ FetcherInit("started", FALSE, FALSE)
    /\ ValidatorIdle
    /\ RobotsIdle
    /\ DiscoverIdle
    /\ DedupIdle
    /\ FlushIdle
    /\ MoreIdle
    /\ page_cfg \in PageConfigs
    /\ events = <<>>
    /\ saved_files = {}

run_rest ==
    <<cache_enabled, dry_run, cancelled, fetched_urls, failed_urls, manifest, pending, failure,
      resume, out_format, stream, collected, executed, files, flushed, run_no, finals, disc_reqs,
      marked>>
not_pages == <<client_state, validator_vars, robots_vars, discover_vars, flush_vars, more_vars>>

\* ctx = await self._pipeline.execute(url, output_path, emit=collect_event)
PageBegin ==
    /\ run_pc = "loop"
    /\ idx < Len(discovered_urls)
    /\ run_pc' = "pipeline"
    /\ ctx' = PageContext(discovered_urls[idx + 1])
    /\ step' = 1
    /\ UNCHANGED <<not_pages, dedup_vars, pages_vars, run_rest, discovered_urls, idx, stats>>

\* The step named name is the next one of the loop over self.steps.
AtStep(name) ==
    /\ run_pc = "pipeline"
    /\ step <= Len(StepsOf(page_cfg))
    /\ ~ctx.should_skip
    /\ StepsOf(page_cfg)[step] = name
    /\ step' = step + 1
    /\ UNCHANGED <<not_pages, page_cfg, run_rest, run_pc, discovered_urls, idx, stats>>

\* ValidateStep.execute: nothing to object to
PageValidate == AtStep("validate") /\ UNCHANGED <<ctx, dedup_vars, events, saved_files>>

\* FetchStep.execute: ctx.html is what the site serves
PageFetch ==
    /\ AtStep("fetch")
    /\ ctx' = [ctx EXCEPT !.html = Some(page_cfg.html[ctx.url])]
    /\ UNCHANGED <<dedup_vars, events, saved_files>>

\* MetadataStep.execute: ctx.title
PageMetadata ==
    /\ AtStep("metadata")
    /\ ctx' = [ctx EXCEPT !.title = Some(TitleOf(ctx.html[1]))]
    /\ UNCHANGED <<dedup_vars, events, saved_files>>

\* ConvertStep.execute
PageConvert ==
    /\ AtStep("convert")
    /\ ctx' = ConvertPage(ctx, page_cfg.format)
    /\ UNCHANGED <<dedup_vars, events, saved_files>>

\* DedupStep.execute: check_and_register(ctx.url, content), and for a
\* duplicate should_skip and the page_deduplicated event.
PageDedup ==
    LET h == ComputeHash(DedupContent(ctx))
        ret == CheckResult(dedup_seen, h)
    IN  /\ AtStep("dedup")
        /\ dedup_total_checked' = dedup_total_checked + 1
        /\ dedup_duplicates_found' =
             IF h \in DOMAIN dedup_seen THEN dedup_duplicates_found + 1 ELSE dedup_duplicates_found
        /\ dedup_seen' = Register(dedup_seen, h, ctx.url)
        /\ IF ~ret[1] /\ ret[2] # None /\ ret[2][1] # ""
           THEN /\ ctx' = [ctx EXCEPT !.should_skip = TRUE]
                /\ events' = Append(events, [type |-> "page_deduplicated", url |-> ctx.url,
                                             duplicate_of |-> ret[2][1]])
           ELSE UNCHANGED <<ctx, events>>
        /\ UNCHANGED <<dedup_lock, dedup_pc, dedup_arg, dedup_ret, dedup_order, saved_files>>

\* SaveStep / JsonSaveStep / SqliteSaveStep.execute: the page is written
PageSave ==
    /\ AtStep("save")
    /\ ctx' = [ctx EXCEPT !.saved = TRUE]
    /\ saved_files' = saved_files \cup {ctx.url}
    /\ UNCHANGED <<dedup_vars, events>>

\* The save step fails: SaveStep and JsonSaveStep let the OSError of the write
\* out and FetchPipeline.execute records it; SqliteSaveStep records the
\* sqlite3.Error itself and returns.  Nothing is written.
PageSaveFails ==
    /\ AtStep("save")
    /\ ctx' = IF page_cfg.format = "sqlite"
              THEN [ctx EXCEPT !.error = "SQLite error: database is locked"]
              ELSE OnStepException(ctx, "save", "disk full")
    /\ UNCHANGED <<dedup_vars, events, saved_files>>

\* execute has returned: the statistics are updated from ctx.
PageRecord ==
    /\ run_pc = "pipeline"
    /\ step > Len(StepsOf(page_cfg)) \/ ctx.should_skip
    /\ stats' = CountResult(stats, ctx)
    /\ idx' = idx + 1
    /\ run_pc' = "loop"
    /\ UNCHANGED <<not_pages, dedup_vars, pages_vars, run_rest, discovered_urls, step, ctx>>

\* The loop is over.
PagesComplete ==
    /\ run_pc = "loop"
    /\ idx = Len(discovered_urls)
    /\ run_pc' = "completed"
    /\ UNCHANGED <<not_pages, dedup_vars, pages_vars, run_rest, discovered_urls, idx, step, ctx,
                   stats>>

NextPages ==
    \/ \E urls \in PageOrders : DiscoveryComplete(urls)
    \/ PageBegin
    \/ PageValidate
    \/ PageFetch
    \/ PageMetadata
    \/ PageConvert
    \/ PageDedup
    \/ PageSave
    \/ PageSaveFails
    \/ PageRecord
    \/ PagesComplete

SpecPages == InitPages /\ [][NextPages]_vars

\* The three URLs serve byte-identical HTML.
IdenticalHtml == \A u, v \in PageURLs : page_cfg.html[u] = page_cfg.html[v]

\* C18: with streaming dedup and the markdown output format, a finished run
\* over three URLs with identical HTML has saved the first page only and
\* emitted, for each of the other two, a page_deduplicated event naming the
\* first URL; pages_fetched is 1.  It fails: the markdown that is hashed
\* begins with a frontmatter holding the page's own URL.
C18_IdenticalPagesSavedOnce ==
    (run_pc = "completed" /\ page_cfg.streaming_dedup /\ page_cfg.format = "markdown"
       /\ IdenticalHtml) =>
        /\ stats.pages_fetched = 1
        /\ saved_files = {discovered_urls[1]}
        /\ events = [k \in 1..2 |-> [type |-> "page_deduplicated", url |-> discovered_urls[k + 1],
                                     duplicate_of |-> discovered_urls[1]]]


\* ---------------------------------------------------------------------------
\* Runs one after the other on one cache directory (cache/manager.py).  At
\* the end of a run Fetcher.__aexit__ flushes the cache manager; the next
\* Fetcher constructs a new CacheManager, which loads manifest.json and
\* state.json, and starts from there.
\* ---------------------------------------------------------------------------

\* _InternalState.to_cache_state, json.dump, json.load and
\* _InternalState.from_cache_state: the set goes to disk as a list and comes
\* back as the same set.
PersistedSet(s) == s

InitRuns ==
    /\ ClientInit
    /\ ExtIdle
    /\ adaptive
    /\ \E dry \in BOOLEAN : FetcherInit("started", TRUE, dry)

\* The run is over; the same command is run again: __aexit__, then a new
\* Fetcher's __aenter__ with CacheManager.__init__ reading what flush wrote.
\* After a kill there was no __aexit__: the files are as the flush before
\* left them.
NextRunStarts ==
    LET on_disk == IF run_pc = "killed" THEN flushed
                   ELSE [fetched_urls |-> PersistedSet(fetched_urls),
                         failed_urls |-> PersistedSet(failed_urls),
                         manifest |-> PersistedSet(manifest)]
    IN  /\ run_pc \in {"completed", "cancelled", "failed", "killed"}
        /\ cache_enabled
        /\ run_no < MaxRuns
        /\ run_no' = run_no + 1
        /\ run_pc' = "started"
        /\ cancelled' = FALSE
        /\ discovered_urls' = <<>>
        /\ idx' = 0
        /\ step' = 0
        /\ ctx' = NewContext
        /\ stats' = NewStats
        /\ failure' = [u \in PageURLs |-> "none"]
        /\ flushed' = on_disk
        /\ fetched_urls' = on_disk.fetched_urls
        /\ failed_urls' = on_disk.failed_urls
        /\ manifest' = on_disk.manifest
        /\ stream' = <<>>
        /\ collected' = <<>>
        /\ executed' = <<>>
        /\ finals' = <<>>
        /\ disc_reqs' = 0
        /\ UNCHANGED <<ext_vars, client_state, cache_enabled, dry_run, resume, out_format,
                       pending, files, marked>>

NextRuns == NextRun \/ NextRunStarts

SpecRuns == InitRuns /\ [][NextRuns]_vars

\* C19: at the end of every run with caching enabled, one that starts from
\* the state earlier runs persisted included, no URL is both in the
\* fetched-URL set and in the failed-URL set.  It fails: neither mark
\* removes the URL from the other set.
C19_FetchedFailedDisjoint ==
    (run_pc = "completed" /\ cache_enabled) => fetched_urls \cap failed_urls = {}


\* ---------------------------------------------------------------------------
\* CacheManager.flush (cache/manager.py).  A file on disk is the sequence of
\* the pieces json.dump has written to it; open(path, "w") leaves it empty.
\* The process can be killed between any two writes.
\* ---------------------------------------------------------------------------

FlushURLs == {u \in PageURLs : u # "https://docs.example.com/c"}

\* list(a_set): its elements in some order
RECURSIVE ListOf(_)
ListOf(s) ==
    IF s = {} THEN <<>>
    ELSE LET x == CHOOSE x \in s : TRUE IN <<x>> \o ListOf(s \ {x})

\* json.dump(self.manifest, f, indent=2, ensure_ascii=False): the pieces
\* written, an entry per URL between the braces.
DumpManifest(man) == <<"{">> \o ListOf(man) \o <<"}">>

\* json.dump(self._state.to_cache_state(), f, indent=2, ensure_ascii=False)
DumpState(fetched, failed) ==
    <<"{", "fetched_urls", "[">> \o ListOf(fetched) \o <<"]", "failed_urls", "[">>
    \o ListOf(failed) \o <<"]", "last_run", "}">>

\* What flush has to write into the file named f.
NewText(f) ==
    IF f = "manifest" THEN DumpManifest(manifest) ELSE DumpState(fetched_urls, failed_urls)

\* flush: _save_manifest(), then _save_state()
AfterFile(f) == IF f = "manifest" THEN "save_state" ELSE "done"

\* A cache directory left by an earlier run, and a manager that loaded it and
\* has since been changed by the run (dirty) or not.
InitFlush ==
    /\ ClientInit
    /\ adaptive
    /\ ValidatorIdle
    /\ RobotsIdle
    /\ DiscoverIdle
    /\ DedupIdle
    /\ PagesIdle
    /\ MoreIdle
    /\ cache_enabled = TRUE
    /\ dry_run = FALSE
    /\ cancelled = FALSE
    /\ run_pc = "completed"
    /\ discovered_urls = <<>>
    /\ idx = 0
    /\ step = 0
    /\ ctx = NewContext
    /\ stats = NewStats
    /\ pending = None
    /\ failure = [u \in PageURLs |-> "none"]
    /\ resume = FALSE
    /\ out_format = "markdown"
    /\ stream = <<>>
    /\ collected = <<>>
    /\ executed = <<>>
    /\ files = NoOutput
    /\ flushed = NoState
    /\ run_no = 1
    /\ finals = <<>>
    /\ disc_reqs = 0
    /\ marked = {}
    /\ \E old \in SUBSET FlushURLs :
         /\ disk_prev = [manifest |-> DumpManifest(old), state |-> DumpState(old, {})]
         /\ dirty \in [{"manifest", "state"} -> BOOLEAN]
         /\ manifest \in IF dirty.manifest THEN SUBSET FlushURLs ELSE {old}
         /\ fetched_urls \in IF dirty.state THEN SUBSET FlushURLs ELSE {old}
         /\ failed_urls \in IF dirty.state THEN SUBSET FlushURLs ELSE {{}}
    /\ disk = disk_prev
    /\ flush_pc = "idle"
    /\ flush_pos = 0

not_flush == <<client_state, run_vars, validator_vars, robots_vars, discover_vars, dedup_vars,
               pages_vars, more_vars>>

\* self._cache_manager.flush()
FlushBegin ==
    /\ flush_pc = "idle"
    /\ flush_pc' = "save_manifest"
    /\ UNCHANGED <<not_flush, disk, disk_prev, dirty, flush_pos>>

\* _save_manifest / _save_state: `if not dirty: return`
SaveClean(f) ==
    /\ flush_pc = "save_" \o f
    /\ ~dirty[f]
    /\ flush_pc' = AfterFile(f)
    /\ UNCHANGED <<not_flush, disk, disk_prev, dirty, flush_pos>>

\* open(file, "w", encoding="utf-8"): the file is created or truncated
SaveOpen(f) ==
    /\ flush_pc = "save_" \o f
    /\ dirty[f]
    /\ disk' = [disk EXCEPT ![f] = <<>>]
    /\ flush_pos' = 0
    /\ flush_pc' = "write_" \o f
    /\ UNCHANGED <<not_flush, disk_prev, dirty>>

\* open raises (OSError): logged, the flag stays set
SaveOpenFails(f) ==
    /\ flush_pc = "save_" \o f
    /\ dirty[f]
    /\ flush_pc' = AfterFile(f)
    /\ UNCHANGED <<not_flush, disk, disk_prev, dirty, flush_pos>>

\* json.dump: the next piece reaches the file
SaveWrite(f) ==
    /\ flush_pc = "write_" \o f
    /\ flush_pos < Len(NewText(f))
    /\ disk' = [disk EXCEPT ![f] = Append(@, NewText(f)[flush_pos + 1])]
    /\ flush_pos' = flush_pos + 1
    /\ UNCHANGED <<not_flush, disk_prev, dirty, flush_pc>>

\* A write raises (OSError, disk full): logged, the flag stays set
SaveWriteFails(f) ==
    /\ flush_pc = "write_" \o f
    /\ flush_pos < Len(NewText(f))
    /\ flush_pc' = AfterFile(f)
    /\ UNCHANGED <<not_flush, disk, disk_prev, dirty, flush_pos>>

\* The with block ends: the file is closed and the flag cleared.
SaveClose(f) ==
    /\ flush_pc = "write_" \o f
    /\ flush_pos = Len(NewText(f))
    /\ dirty' = [dirty EXCEPT ![f] = FALSE]
    /\ flush_pc' = AfterFile(f)
    /\ UNCHANGED <<not_flush, disk, disk_prev, flush_pos>>

\* The process is killed during flush.
Interrupt ==
    /\ flush_pc \notin {"idle", "done", "killed"}
    /\ flush_pc' = "killed"
    /\ UNCHANGED <<not_flush, disk, disk_prev, dirty, flush_pos>>

NextFlush ==
    \/ FlushBegin
    \/ \E f \in {"manifest", "state"} : SaveClean(f)
    \/ \E f \in {"manifest", "state"} : SaveOpen(f)
    \/ \E f \in {"manifest", "state"} : SaveOpenFails(f)
    \/ \E f \in {"manifest", "state"} : SaveWrite(f)
    \/ \E f \in {"manifest", "state"} : SaveWriteFails(f)
    \/ \E f \in {"manifest", "state"} : SaveClose(f)
    \/ Interrupt

SpecFlush == InitFlush /\ [][NextFlush]_vars

\* C20: wherever flush is, a kill included, each of the two files on disk is
\* its complete previous version or its complete new version.  It fails:
\* the file is opened for writing in place, so it is empty and then partial
\* until the last piece is written.
C20_FlushAtomic ==
    \A f \in {"manifest", "state"} : disk[f] \in {disk_prev[f], NewText(f)}


\* ---------------------------------------------------------------------------
\* Fetcher.run with its first phase step by step (specifications SpecStream
\* and SpecSessions): the resume check, the discovery loop with the cancel
\* flag read after every URL, and what run() yields.  crawl.max_pages is
\* not set.
\* ---------------------------------------------------------------------------

\* CacheManager.get_pending_urls(seed): None without a persisted list, else
\* the URLs of the list that are not in the fetched set.
GetPendingUrls(p, fetched) ==
    IF p = None THEN None ELSE Some(SelectSeq(p[1], LAMBDA u : u \notin fetched))

\* The output directories a run may start with: nothing, or the markdown
\* file of one page left by an earlier command.
OutputDirs == {NoOutput, [NoOutput EXCEPT !.markdown = {"https://docs.example.com/a"}]}

InitStream ==
    /\ ClientInit
    /\ ExtIdle
    /\ adaptive
    /\ \E cache \in BOOLEAN, dry \in BOOLEAN, format \in OutputFormats, existing \in OutputDirs :
         FetcherEntered("started", cache, dry, format, FALSE, existing)

\* The same without the return: run() goes on after the cancelled event
CheckCancelledNoReturn(s, then) ==
    /\ stream' = IF cancelled THEN Append(s, FetchEvent("cancelled", "")) ELSE s
    /\ run_pc' = then
\* if self._cancelled: yield CANCELLED; return
CheckCancelled(s, then) ==
    /\ stream' = IF cancelled THEN Append(s, FetchEvent("cancelled", "")) ELSE s
    /\ run_pc' = IF cancelled THEN "cancelled" ELSE then

\* run() up to the discovery loop: started, then either the pending list is
\* taken over (resumed, and the cancel flag is read before the loop) or
\* discovery_started.
RunBegin ==
    LET p == IF cache_enabled /\ resume THEN GetPendingUrls(pending, fetched_urls) ELSE None
    IN  /\ run_pc = "started"
        /\ IF p # None
           THEN /\ discovered_urls' = p[1]
                /\ CheckCancelled(<<FetchEvent("started", ""),
                                    [FetchEvent("resumed", "") EXCEPT !.total = Some(Len(p[1]))]>>,
                                  "loop")
           ELSE /\ discovered_urls' = <<>>
                /\ stream' = <<FetchEvent("started", ""), FetchEvent("discovery_started", "")>>
                /\ run_pc' = "discovering"
        /\ UNCHANGED <<ext_vars, client_state, run_frame, cancelled, idx, step, ctx, stats,
                       fetched_urls, failed_urls, manifest, pending, failure, collected,
                       executed, files, finals, disc_reqs>>

\* self._discoverer.discover(...) fetches a sitemap or a page.
DiscoveryRequest ==
    /\ run_pc = "discovering"
    /\ disc_reqs < MaxFetches
    /\ disc_reqs' = disc_reqs + 1
    /\ UNCHANGED <<ext_vars, client_state, run_frame, cancelled, run_pc, discovered_urls, idx,
                   step, ctx, stats, fetched_urls, failed_urls, manifest, pending, failure,
                   stream, collected, executed, files, finals>>

\* async for url in self._discoverer.discover(...): the URL is appended and
\* the cancel flag read.  The discoverer has asked for a sitemap before its
\* first URL.
DiscoverUrl(u) ==
    /\ run_pc = "discovering"
    /\ disc_reqs >= 1
    /\ Len(discovered_urls) < MaxUrls
    /\ \A k \in DOMAIN discovered_urls : discovered_urls[k] # u
    /\ discovered_urls' = Append(discovered_urls, u)
    /\ CheckCancelled(stream, "discovering")
    /\ UNCHANGED <<ext_vars, client_state, run_frame, cancelled, idx, step, ctx, stats,
                   fetched_urls, failed_urls, manifest, pending, failure, collected, executed,
                   files, finals, disc_reqs>>

\* The discoverer is exhausted: the list is persisted when caching is on,
\* discovery_complete is yielded and the cancel flag read.
DiscoveryExhausted ==
    /\ run_pc = "discovering"
    /\ disc_reqs >= 1
    /\ pending' = IF cache_enabled THEN SaveDiscoveredUrls(discovered_urls) ELSE pending
    /\ CheckCancelled(Append(stream, [FetchEvent("discovery_complete", "")
                                        EXCEPT !.total = Some(Len(discovered_urls))]),
                      "loop")
    /\ UNCHANGED <<ext_vars, client_state, run_frame, cancelled, discovered_urls, idx, step,
                   ctx, stats, fetched_urls, failed_urls, manifest, failure, collected, executed,
                   files, finals, disc_reqs>>

\* An exception leaves the discoverer (_parse_sitemap catches ParseError
\* only): except Exception yields failed and raises again.
DiscoveryRaises ==
    /\ run_pc = "discovering"
    /\ disc_reqs >= 1
    /\ stream' = Append(stream, [FetchEvent("failed", "") EXCEPT !.error = "EntitiesForbidden"])
    /\ run_pc' = "failed"
    /\ UNCHANGED <<ext_vars, client_state, run_frame, cancelled, discovered_urls, idx, step,
                   ctx, stats, fetched_urls, failed_urls, manifest, pending, failure, collected,
                   executed, files, finals, disc_reqs>>

\* The steps of run() after its first phase
LoopStep ==
    \/ RunCancelled
    \/ DryRunSkip
    \/ BeginPipeline
    \/ \E o \in ValidateOutcomes : ValidateStep(o)
    \/ \E o \in FetchOutcomes : FetchStep(o)
    \/ MetadataStep
    \/ \E o \in ConvertOutcomes : ConvertStep(o)
    \/ \E o \in SaveOutcomes : SaveStep(o)
    \/ RecordResult
    \/ RunComplete

NextStream ==
    \/ Cancel
    \/ RunBegin
    \/ DiscoveryRequest
    \/ \E u \in PageURLs : DiscoverUrl(u)
    \/ DiscoveryExhausted
    \/ DiscoveryRaises
    \/ LoopStep

SpecStream == InitStream /\ [][NextStream]_vars

\* The process is killed: nothing of Fetcher.__aexit__ runs.
Kill ==
    /\ run_pc \in {"discovering", "loop", "pipeline"}
    /\ run_pc' = "killed"
    /\ UNCHANGED <<ext_vars, client_state, run_frame, cancelled, discovered_urls, idx, step,
                   ctx, stats, fetched_urls, failed_urls, manifest, pending, failure, stream,
                   collected, executed, files, finals, disc_reqs>>

\* Commands run one after the other on one cache directory and one output
\* directory, with caching on and resume = true (a run that finds no
\* persisted list discovers as a run without resume does); the site serves
\* every page with the same bytes and the same ETag each time.
InitSessions ==
    /\ ClientInit
    /\ ExtIdle
    /\ adaptive
    /\ \E dry \in BOOLEAN, format \in OutputFormats :
         FetcherEntered("started", TRUE, dry, format, TRUE, NoOutput)

NextSessions == NextStream \/ Kill \/ NextRunStarts

SpecSessions == InitSessions /\ [][NextSessions]_vars


\* C21: in a later run over URLs an earlier run fetched and cached, with the
\* site serving the same content and ETag, no save step writes the page,
\* whatever the output format.  It fails with the json format: nothing in
\* the pipeline asks the cache whether the page has changed, and only the
\* markdown file and the SQLite row of the earlier run stand in the way.
C21_RerunWritesNothing ==
    (run_no >= 2 /\ run_pc = "pipeline" /\ discovered_urls[idx + 1] \in flushed.manifest)
        => ~ctx.saved


\* The URLs of a list
Range(l) == {l[k] : k \in DOMAIN l}

\* C22: with caching on, the discovered list is on record before a page is
\* fetched; a run with resume = true that finds the list an interrupted run
\* left emits resumed with a total of at most the URLs of the list not yet
\* fetched, and issues no discovery request; a run that completes without
\* failures leaves no list.  It fails: a killed run has fetched pages the
\* cache files know nothing of.
C22_ResumeSkipsFetched ==
    [][ /\ (cache_enabled /\ run_pc' = "pipeline") =>
              (pending' # None /\ Range(discovered_urls') \subseteq Range(pending'[1]))
        /\ (run_pc = "started" /\ run_pc' # "started" /\ run_no >= 2 /\ resume /\ pending # None) =>
              /\ stream'[2].type = "resumed"
              /\ stream'[2].total[1] <= Cardinality(Range(pending[1]) \ marked)
              /\ run_pc' # "discovering"
        /\ (Len(stream') >= 2 /\ stream'[2].type = "resumed") => disc_reqs' = 0
        /\ (run_pc' = "completed" /\ cache_enabled /\ stats'.pages_failed = 0) => pending' = None
      ]_vars


\* C23: for one URL the steps run are a prefix of the declared steps, in
\* order and each once, and once should_skip is set no further step runs.
C23_StepsInOrder ==
    [][ /\ run_pc' = "pipeline" =>
              /\ Len(executed') <= Len(StepsFor(out_format))
              /\ \A k \in DOMAIN executed' : executed'[k].name = StepsFor(out_format)[k]
        /\ (run_pc = "pipeline" /\ ctx.should_skip) => executed' = executed
      ]_vars
\* FetchStep has skipped the page on an HTTP 404 and the loop has stopped there
C23_Witness ==
    /\ run_pc = "loop"
    /\ idx = 1
    /\ Len(executed) = 2
    /\ executed[2].name = "fetch"
    /\ ~executed[2].raised
    /\ Len(finals) = 1
    /\ finals[1].ctx # None
    /\ finals[1].ctx[1].should_skip
    /\ finals[1].ctx[1].skip_reason = "HTTP 404"


\* C24: when a step raises, it is the last step run for the URL, the context
\* has error = "<step name>: <message>" and should_skip set, and the last
\* event the driver collected is a fetch_failed carrying that error.
C24_RaiseCaptured ==
    \A k \in DOMAIN executed :
        executed[k].raised =>
            /\ k = Len(executed)
            /\ ctx.error = executed[k].name \o ": " \o executed[k].e
            /\ ctx.should_skip
            /\ collected # <<>>
            /\ collected[Len(collected)].type = "fetch_failed"
            /\ collected[Len(collected)].error = ctx.error
            /\ collected[Len(collected)].url = IF run_pc = "pipeline"
                                                THEN discovered_urls[idx + 1]
                                                ELSE finals[Len(finals)].url
\* The save step has raised on a full disk after four steps went through
C24_Witness ==
    /\ run_pc = "pipeline"
    /\ Len(executed) = 5
    /\ executed[5].raised
    /\ executed[5].name = "save"
    /\ ctx.error = "save: disk full"
    /\ collected[Len(collected)].error = "save: disk full"


\* C25: once error or should_skip is set on the context of a URL, no later
\* step changes its HTML, title or Markdown, and no sink writes the page.
\* It fails: ConvertStep records a failed conversion in ctx.error and
\* returns, and SaveStep writes the raw HTML.
C25_NothingAfterError ==
    [][ (run_pc = "pipeline" /\ (ctx.error # "" \/ ctx.should_skip)) =>
            /\ ctx'.markdown = ctx.markdown
            /\ ctx'.title = ctx.title
            /\ ctx'.html = ctx.html
            /\ ctx'.saved = ctx.saved
            /\ files' = files
      ]_vars


\* The events that end a stream
TerminalEvents == {"completed", "cancelled", "failed"}
\* The position of the last fetch_progress at or before position k (0: none)
RECURSIVE LastProgress(_, _)
LastProgress(s, k) ==
    IF k = 0 THEN 0
    ELSE IF s[k].type = "fetch_progress" THEN k
    ELSE LastProgress(s, k - 1)

\* C26: the stream of a run begins with started; a terminal event is the
\* last event, and a run that has ended has exactly one, its own;
\* discovery_complete or resumed precedes every fetch_progress; every event
\* of a URL follows the fetch_progress of that URL with no fetch_progress of
\* another URL in between, and a URL has one fetch_progress.
C26_StreamOrdered ==
    /\ stream # <<>> => stream[1].type = "started"
    /\ \A k \in DOMAIN stream : stream[k].type \in TerminalEvents => k = Len(stream)
    /\ run_pc \in TerminalEvents =>
           (stream # <<>> /\ stream[Len(stream)].type = run_pc)
    /\ run_pc \notin TerminalEvents =>
           \A k \in DOMAIN stream : stream[k].type \notin TerminalEvents
    /\ \A k \in DOMAIN stream :
           stream[k].type = "fetch_progress" =>
               \E j \in 1..(k - 1) : stream[j].type \in {"discovery_complete", "resumed"}
    /\ \A k \in DOMAIN stream :
           stream[k].url # "" =>
               /\ LastProgress(stream, k) # 0
               /\ stream[LastProgress(stream, k)].url = stream[k].url
    /\ \A j, k \in DOMAIN stream :
           (stream[j].type = "fetch_progress" /\ stream[k].type = "fetch_progress"
              /\ stream[j].url = stream[k].url) => j = k
\* A resumed run has processed two pages, one of them failing, and completed
C26_Witness ==
    /\ run_pc = "completed"
    /\ stream[2].type = "resumed"
    /\ idx = 2
    /\ \E k \in DOMAIN stream : stream[k].type = "fetch_failed"
    /\ \E k \in DOMAIN stream : stream[k].type = "fetch_completed"


\* C27: once cancel() has been called, no discovery request is issued and no
\* pipeline execution is started, the page in progress goes on to its end,
\* and the run does not end with completed.  It fails: run() does not read
\* the flag before discovery, nor after the last page.
C27_CancelObserved ==
    [][ cancelled =>
            /\ disc_reqs' <= disc_reqs
            /\ run_pc # "pipeline" => run_pc' # "pipeline"
            /\ run_pc = "pipeline" => run_pc' \in {"pipeline", "loop"}
            /\ run_pc # "completed" => run_pc' # "completed"
      ]_vars


\* SkipReason: the enumerated reasons of a skip
SkipReasons ==
    {"robots_disallowed", "already_fetched", "cache_unchanged", "invalid_content_type",
     "duplicate_content", "pattern_excluded", "max_depth_exceeded", "http_error",
     "file_exists", "dry_run"}

\* C28: every fetch_skipped event of the stream carries a reason of the
\* enumerated set.  It fails: the steps build their fetch_skipped events
\* with a message only.
C28_SkipReasonCarried ==
    \A k \in DOMAIN stream :
        stream[k].type = "fetch_skipped" =>
            (stream[k].skip_reason # None /\ stream[k].skip_reason[1] \in SkipReasons)


\* The count a processed URL belongs to, from its final context (a dry-run
\* skip has no context)
CategoryOf(f) ==
    IF f.ctx = None THEN "skipped"
    ELSE IF f.ctx[1].error # "" THEN "failed"
    ELSE IF f.ctx[1].should_skip THEN "skipped"
    ELSE "fetched"
\* How many of the processed URLs belong to a count
Counted(cat) == Cardinality({k \in DOMAIN finals : CategoryOf(finals[k]) = cat})

\* C30: at every point of a run each URL whose processing has finished is
\* counted once, in the count its final context gives, so that the three
\* counts add up to the number of URLs processed.
C30_StatsPartition ==
    /\ Len(finals) = idx
    /\ stats.pages_fetched = Counted("fetched")
    /\ stats.pages_skipped = Counted("skipped")
    /\ stats.pages_failed = Counted("failed")
    /\ stats.pages_fetched + stats.pages_skipped + stats.pages_failed = Len(finals)
\* One URL ended with a step that raised (error and should_skip both set),
\* the other was skipped, and the run completed
C30_Witness ==
    /\ run_pc = "completed"
    /\ Len(finals) = 2
    /\ finals[1].ctx # None
    /\ finals[1].ctx[1].error # ""
    /\ finals[1].ctx[1].should_skip
    /\ CategoryOf(finals[2]) = "skipped"
    /\ stats.pages_failed = 1
    /\ stats.pages_skipped = 1


\* ======================================================================
\* The Fetcher scope: __aenter__, run, __aexit__ (specification SpecScope)
\* ======================================================================
\* scope_pc goes through the statements of __aenter__ that acquire
\* something ("enter", "cache", "browser", "savers", "discoverers"), is
\* "inside" while the body of the async with runs, goes through the
\* statements of __aexit__ ("exit_browser", "exit_http", "exit_savers",
\* "exit_cache") and ends as "left" (the scope was left through __aexit__)
\* or "raised" (an exception left __aenter__ or __aexit__).  Python calls
\* __aexit__ only when __aenter__ has returned.
ScopeConfigs == [javascript : BOOLEAN, format : OutputFormats, cache : BOOLEAN]

InitScope ==
    /\ ClientInit
    /\ FetcherInit("idle", FALSE, FALSE)
    /\ ValidatorIdle
    /\ RobotsIdle
    /\ DiscoverIdle
    /\ DedupIdle
    /\ PagesIdle
    /\ FlushIdle
    /\ JsonIdle
    /\ CanonIdle
    /\ SitemapIdle
    /\ CrawlIdle
    /\ PoolIdle
    /\ scope_pc = "enter"
    /\ scope_cfg \in ScopeConfigs
    /\ held = {}
    /\ scope_end = ""

not_scope ==
    <<base_vars, validator_vars, robots_vars, discover_vars, dedup_vars, pages_vars, flush_vars,
      json_vars, canon_vars, sm_vars, cr_vars, bp_vars>>

\* self._http_client = AsyncHttpClient(...); await self._http_client.__aenter__()
EnterHttp ==
    /\ scope_pc = "enter"
    /\ held' = held \cup {"http"}
    /\ scope_pc' = "cache"
    /\ UNCHANGED <<not_scope, scope_cfg, scope_end>>

\* if self.config.cache.enabled: self._cache_manager = CacheManager(...)
EnterCache ==
    /\ scope_pc = "cache"
    /\ held' = IF scope_cfg.cache THEN held \cup {"cache"} ELSE held
    /\ scope_pc' = "browser"
    /\ UNCHANGED <<not_scope, scope_cfg, scope_end>>

\* if self.config.crawl.javascript: ImportError without Playwright, else
\* the BrowserFetcher is entered, which launches the browser.
BrowserOutcomes == {"ok", "no_playwright", "launch_fails"}
EnterBrowser(o) ==
    /\ scope_pc = "browser"
    /\ ~scope_cfg.javascript => o = "ok"
    /\ held' = IF scope_cfg.javascript /\ o = "ok" THEN held \cup {"browser"} ELSE held
    /\ scope_pc' = IF o = "ok" THEN "savers" ELSE "raised"
    /\ UNCHANGED <<not_scope, scope_cfg, scope_end>>

\* self._json_saver = JsonSaveStep(...) / self._sqlite_saver = SqliteSaveStep(...)
EnterSavers ==
    /\ scope_pc = "savers"
    /\ held' = IF scope_cfg.format \in {"json", "sqlite"}
               THEN held \cup {scope_cfg.format}
               ELSE held
    /\ scope_pc' = "discoverers"
    /\ UNCHANGED <<not_scope, scope_cfg, scope_end>>

\* SitemapDiscoverer(..., robots_checker=self._robots_checker) and the other
\* discoverers: the SitemapDiscoverer of discovery/sitemap.py has no such
\* parameter and raises TypeError; one that takes it returns.
EnterDiscoverers(o) ==
    /\ scope_pc = "discoverers"
    /\ scope_pc' = IF o = "ok" THEN "inside" ELSE "raised"
    /\ UNCHANGED <<not_scope, scope_cfg, held, scope_end>>

\* The body of the async with ends: run() completed, was cancelled, or
\* raised.  __aexit__ is called in all three cases.
RunEnds(e) ==
    /\ scope_pc = "inside"
    /\ scope_end = ""
    /\ scope_end' = e
    /\ scope_pc' = "exit_browser"
    /\ UNCHANGED <<not_scope, scope_cfg, held>>

\* if self._browser_fetcher: await self._browser_fetcher.__aexit__(...), in
\* which self._browser.close() is outside any try
ExitBrowser(o) ==
    /\ scope_pc = "exit_browser"
    /\ "browser" \notin held => o = "ok"
    /\ held' = IF o = "ok" THEN held \ {"browser"} ELSE held
    /\ scope_pc' = IF o = "ok" THEN "exit_http" ELSE "raised"
    /\ UNCHANGED <<not_scope, scope_cfg, scope_end>>

\* if self._http_client: await self._http_client.__aexit__(...)
ExitHttp ==
    /\ scope_pc = "exit_http"
    /\ held' = held \ {"http"}
    /\ scope_pc' = "exit_savers"
    /\ UNCHANGED <<not_scope, scope_cfg, scope_end>>

\* self._json_saver.finalize() cleans up and raises again when a write or
\* the rename fails; self._sqlite_saver.close() commits before it closes.
ExitSavers(o) ==
    /\ scope_pc = "exit_savers"
    /\ held \cap {"json", "sqlite"} = {} => o = "ok"
    /\ held' = IF o = "ok" THEN held \ {"json", "sqlite"} ELSE held \ {"json"}
    /\ scope_pc' = IF o = "ok" THEN "exit_cache" ELSE "raised"
    /\ UNCHANGED <<not_scope, scope_cfg, scope_end>>

\* if self._cache_manager: self._cache_manager.flush()
ExitCache ==
    /\ scope_pc = "exit_cache"
    /\ held' = held \ {"cache"}
    /\ scope_pc' = "left"
    /\ UNCHANGED <<not_scope, scope_cfg, scope_end>>

NextScope ==
    \/ EnterHttp
    \/ EnterCache
    \/ \E o \in BrowserOutcomes : EnterBrowser(o)
    \/ EnterSavers
    \/ \E o \in {"ok", "type_error"} : EnterDiscoverers(o)
    \/ \E e \in {"completed", "cancelled", "error"} : RunEnds(e)
    \/ \E o \in {"ok", "raises"} : ExitBrowser(o)
    \/ ExitHttp
    \/ \E o \in {"ok", "raises"} : ExitSavers(o)
    \/ ExitCache

SpecScope == InitScope /\ [][NextScope]_vars

\* C29: when the Fetcher scope has been left, by completion, cancellation or
\* an exception, nothing that was acquired is still held.  It fails: an
\* exception in __aenter__ leaves the HTTP session open, and one in a
\* release step of __aexit__ skips the release steps after it.
C29_AllReleased == scope_pc \in {"left", "raised"} => held = {}


\* ======================================================================
\* JsonSaveStep: the streamed bundle (specification SpecJson)
\* ======================================================================
\* A file is the sequence of the JSON tokens written to it; a record is one
\* token, and "partial" is what a write that failed left of a record.
MaxRecords == 2
JsonRecords == {"doc a", "doc b"}
CountText(n) == <<"0", "1", "2", "3", "4", "5">>[n + 1]

\* _ensure_temp_file: '{\n  "documents": [\n'
JsonOpening == <<"{", "documents", "[">>
\* finalize: the array is closed, generated_at and document_count follow
JsonClosing(n) == <<"]", "generated_at", "document_count", CountText(n), "}">>
\* finalize without a temp file: json.dump of generated_at, document_count
\* and an empty documents list, in that order
EmptyBundle == <<"{", "generated_at", "document_count", "0", "documents", "[", "]", "}">>

\* The elements of a JSON array written as items separated by commas (None
\* when the text between the brackets is no such list)
ArrayItems(a) ==
    IF a = <<>> THEN Some(<<>>)
    ELSE IF /\ Len(a) % 2 = 1
            /\ \A k \in DOMAIN a : IF k % 2 = 1 THEN a[k] \in JsonRecords ELSE a[k] = ","
         THEN Some([k \in 1..((Len(a) + 1) \div 2) |-> a[2 * k - 1]])
         ELSE None
\* What a reader of the file gets: the documents and document_count of a
\* well-formed bundle, None for anything else
ReadBundle(t) ==
    IF t = EmptyBundle THEN Some([documents |-> <<>>, document_count |-> "0"])
    ELSE IF /\ Len(t) >= 8
            /\ SubSeq(t, 1, 3) = JsonOpening
            /\ SubSeq(t, Len(t) - 4, Len(t) - 2) = <<"]", "generated_at", "document_count">>
            /\ t[Len(t)] = "}"
            /\ ArrayItems(SubSeq(t, 4, Len(t) - 5)) # None
         THEN Some([documents |-> ArrayItems(SubSeq(t, 4, Len(t) - 5))[1],
                    document_count |-> t[Len(t) - 1]])
         ELSE None

\* A bundle an earlier run left at the output path
OldBundle == JsonOpening \o <<"doc a">> \o JsonClosing(1)

InitJson ==
    /\ ClientInit
    /\ FetcherInit("idle", FALSE, FALSE)
    /\ ValidatorIdle
    /\ RobotsIdle
    /\ DiscoverIdle
    /\ DedupIdle
    /\ PagesIdle
    /\ FlushIdle
    /\ ScopeIdle
    /\ CanonIdle
    /\ SitemapIdle
    /\ CrawlIdle
    /\ PoolIdle
    /\ json_out \in {None, Some(OldBundle)}
    /\ json_tmp = None
    /\ json_count = 0
    /\ json_first = TRUE
    /\ json_pc = "open"
    /\ json_recs = <<>>

\* The writes of this step so far, failed ones included
JsonAttempts == json_count + (IF json_tmp = None THEN 0
                              ELSE Len(SelectSeq(json_tmp[1], LAMBDA x : x = "partial")))

not_json ==
    <<base_vars, validator_vars, robots_vars, discover_vars, dedup_vars, pages_vars, flush_vars,
      scope_vars, canon_vars, sm_vars, cr_vars, bp_vars>>

\* The temp file once _ensure_temp_file has returned, and _first_doc with it
EnsureTempFile == IF json_tmp = None THEN JsonOpening ELSE json_tmp[1]
FirstDoc == IF json_tmp = None THEN TRUE ELSE json_first

\* execute for a context with markdown: the separator, then the record
JsonWrite(r) ==
    /\ json_pc = "open"
    /\ JsonAttempts < MaxRecords
    /\ json_tmp' = Some(EnsureTempFile \o (IF FirstDoc THEN <<>> ELSE <<",">>) \o <<r>>)
    /\ json_first' = FALSE
    /\ json_count' = json_count + 1
    /\ json_recs' = Append(json_recs, r)
    /\ UNCHANGED <<not_json, json_out, json_pc>>

\* execute when f.write(indented) raises OSError part-way: _first_doc is
\* False already, _document_count is not incremented
JsonWriteFails ==
    /\ json_pc = "open"
    /\ JsonAttempts < MaxRecords
    /\ json_tmp' = Some(EnsureTempFile \o (IF FirstDoc THEN <<>> ELSE <<",">>) \o <<"partial">>)
    /\ json_first' = FALSE
    /\ UNCHANGED <<not_json, json_out, json_pc, json_count, json_recs>>

\* finalize without a temp file: open(self._output_file, "w") truncates
JsonFinalizeEmptyOpen ==
    /\ json_pc = "open"
    /\ json_tmp = None
    /\ json_out' = Some(<<>>)
    /\ json_pc' = "dump"
    /\ UNCHANGED <<not_json, json_tmp, json_count, json_first, json_recs>>

\* json.dump(output, f, ...) and the end of the with block
JsonFinalizeEmptyDump ==
    /\ json_pc = "dump"
    /\ json_out' = Some(EmptyBundle)
    /\ json_pc' = "done"
    /\ UNCHANGED <<not_json, json_tmp, json_count, json_first, json_recs>>

\* finalize with a temp file: the closing writes and close()
JsonFinalizeClose ==
    /\ json_pc = "open"
    /\ json_tmp # None
    /\ json_tmp' = Some(json_tmp[1] \o JsonClosing(json_count))
    /\ json_pc' = "rename"
    /\ UNCHANGED <<not_json, json_out, json_count, json_first, json_recs>>

\* os.replace(self._temp_path, self._output_file)
JsonFinalizeRename ==
    /\ json_pc = "rename"
    /\ json_out' = json_tmp
    /\ json_tmp' = None
    /\ json_pc' = "done"
    /\ UNCHANGED <<not_json, json_count, json_first, json_recs>>

\* except Exception: the temp file is closed and unlinked, and the
\* exception raised again
JsonFinalizeFails ==
    /\ json_pc \in {"open", "rename"}
    /\ json_tmp # None
    /\ json_tmp' = None
    /\ json_pc' = "raised"
    /\ UNCHANGED <<not_json, json_out, json_count, json_first, json_recs>>

NextJson ==
    \/ \E r \in JsonRecords : JsonWrite(r)
    \/ JsonWriteFails
    \/ JsonFinalizeEmptyOpen
    \/ JsonFinalizeEmptyDump
    \/ JsonFinalizeClose
    \/ JsonFinalizeRename
    \/ JsonFinalizeFails

SpecJson == InitJson /\ [][NextJson]_vars

\* C31: when finalize returns after k record writes, none of which failed,
\* the file at the output path reads as a bundle of exactly those k records
\* in write order with document_count = k; and the file at the output path
\* changes only by the rename of a temp file that reads as a bundle.  It
\* fails for k = 0: finalize then opens the output file itself and writes
\* into it.
C31_BundleAtomic ==
    [][ /\ (json_pc # "done" /\ json_pc' = "done"
             /\ (json_tmp # None => \A k \in DOMAIN json_tmp[1] : json_tmp[1][k] # "partial")) =>
               /\ json_out' # None
               /\ ReadBundle(json_out'[1]) =
                      Some([documents |-> json_recs, document_count |-> CountText(Len(json_recs))])
        /\ json_out' # json_out =>
               /\ json_tmp # None
               /\ json_out' = json_tmp
               /\ ReadBundle(json_tmp[1]) # None
      ]_vars


\* ======================================================================
\* normalize_url on URL texts (specification SpecCanon)
\* ======================================================================
\* A URL text is the sequence of its tokens: the scheme, "://", the tokens
\* of the authority, "/" and the names of the path, "?" and the query, "#"
\* and the fragment.  urlparse gives its parts, with the path as the
\* sequence of segments after each "/" (an empty segment where two slashes
\* meet or the path ends with one); urlunparse puts the parts together.
RECURSIVE TakeUntil(_, _)
TakeUntil(t, stops) ==
    IF t = <<>> \/ Head(t) \in stops THEN <<>>
    ELSE <<Head(t)>> \o TakeUntil(Tail(t), stops)
DropUntil(t, stops) == SubSeq(t, Len(TakeUntil(t, stops)) + 1, Len(t))

RECURSIVE SegmentsOf(_)
SegmentsOf(p) ==
    IF p = <<>> THEN <<>>
    ELSE IF Len(p) >= 2 /\ p[2] # "/" THEN <<p[2]>> \o SegmentsOf(SubSeq(p, 3, Len(p)))
    ELSE <<"">> \o SegmentsOf(Tail(p))

RECURSIVE PathText(_)
PathText(segs) ==
    IF segs = <<>> THEN <<>>
    ELSE <<"/">> \o (IF Head(segs) = "" THEN <<>> ELSE <<Head(segs)>>) \o PathText(Tail(segs))

\* urlparse(url)
Urlparse(t) ==
    LET rest == SubSeq(t, 3, Len(t))
        after == DropUntil(rest, {"/", "?", "#"})
        tail == DropUntil(after, {"?", "#"})
        q == IF tail # <<>> /\ Head(tail) = "?" THEN TakeUntil(Tail(tail), {"#"}) ELSE <<>>
        f == DropUntil(tail, {"#"})
    IN  [scheme |-> t[1],
         netloc |-> TakeUntil(rest, {"/", "?", "#"}),
         path |-> SegmentsOf(TakeUntil(after, {"?", "#"})),
         query |-> q,
         fragment |-> IF f = <<>> THEN <<>> ELSE Tail(f)]

\* urlunparse(parts): an empty query or fragment leaves no "?" or "#"
Urlunparse(parts) ==
    <<parts.scheme, "://">> \o parts.netloc \o PathText(parts.path)
    \o (IF parts.query # <<>> THEN <<"?">> \o parts.query ELSE <<>>)
    \o (IF parts.fragment # <<>> THEN <<"#">> \o parts.fragment ELSE <<>>)

\* Faulty variant: one trailing slash is removed
NormalizePathOneSlash(path) ==
    LET q == IF path # <<>> /\ path[Len(path)] = "" THEN SubSeq(path, 1, Len(path) - 1) ELSE path
    IN  IF q = <<>> THEN <<"">> ELSE q
\* parsed.path.rstrip("/") or "/"
NormalizePath(path) == IF RStripSlash(path) = <<>> THEN <<"">> ELSE RStripSlash(path)

\* normalize_url(url), basic normalization
normalize_url(t) ==
    LET parsed == Urlparse(t)
    IN  Urlunparse([scheme |-> LowerToken(parsed.scheme),
                    netloc |-> Lower(parsed.netloc),
                    path |-> NormalizePath(parsed.path),
                    query |-> parsed.query,
                    fragment |-> <<>>])

\* The URL texts normalize_url is given
CanonSchemes == {"https", "HTTPS"}
CanonNetlocs ==
    { <<"docs", ".", "example", ".", "com">>,
      <<"docs", ".", "EXAMPLE", ".", "com">>,
      <<"user", "@", "docs", ".", "EXAMPLE", ".", "com", ":", "8443">> }
CanonPaths ==
    { <<>>, <<"/">>, <<"/", "a">>, <<"/", "a", "/">>, <<"/", "a", "/", "/">>, <<"/", "a", "/", "b">>,
      <<"/", "/">> }
CanonQueries == { <<>>, <<"?", "x=1">> }
CanonFragments == { <<>>, <<"#", "top">> }
CanonTexts ==
    { <<s, "://">> \o n \o p \o q \o f :
        s \in CanonSchemes, n \in CanonNetlocs, p \in CanonPaths, q \in CanonQueries,
        f \in CanonFragments }

InitCanon ==
    /\ ClientInit
    /\ adaptive
    /\ FetcherInit("idle", FALSE, FALSE)
    /\ ValidatorIdle
    /\ RobotsIdle
    /\ DiscoverIdle
    /\ DedupIdle
    /\ PagesIdle
    /\ FlushIdle
    /\ ScopeIdle
    /\ JsonIdle
    /\ SitemapIdle
    /\ CrawlIdle
    /\ PoolIdle
    /\ canon_in \in CanonTexts
    /\ canon_out = None
    /\ canon_again = None

not_canon ==
    <<base_vars, validator_vars, robots_vars, discover_vars, dedup_vars, pages_vars, flush_vars,
      scope_vars, json_vars, sm_vars, cr_vars, bp_vars>>

\* key = normalize_url(url)
CanonCall ==
    /\ canon_out = None
    /\ canon_out' = Some(normalize_url(canon_in))
    /\ UNCHANGED <<not_canon, canon_in, canon_again>>

\* normalize_url is given its own result
CanonCallAgain ==
    /\ canon_out # None
    /\ canon_again = None
    /\ canon_again' = Some(normalize_url(canon_out[1]))
    /\ UNCHANGED <<not_canon, canon_in, canon_out>>

NextCanon == CanonCall \/ CanonCallAgain

SpecCanon == InitCanon /\ [][NextCanon]_vars

TwoHostURLs == { Url("https", "example.com", "", "/a"), Url("https", "other.org", "", "/b") }

NextHosts ==
    \/ Tick
    \/ \E t \in Tasks, u \in TwoHostURLs, first \in BOOLEAN : StartGet(t, u, first)
    \/ \E t \in Tasks : Resume(t)
    \/ \E t \in Tasks : DelayWake(t)
    \/ \E t \in Tasks : RequestError(t)
    \/ \E t \in Tasks, s \in Statuses, ra \in RetryAfterHeaders, over \in BOOLEAN :
          RespondRetryable(t, s, ra, over)
    \/ \E t \in Tasks, s \in Statuses, over \in BOOLEAN : RespondFinal(t, s, over)
    \/ \E t \in Tasks, how \in {"complete", "oversize", "error"} : ReadBody(t, how)
    \/ \E t \in Tasks, first \in BOOLEAN : BackoffWake(t, first)
    \/ \E t \in Tasks, first \in BOOLEAN : RetryWake(t, first)

SpecHosts == Init /\ [][NextHosts]_vars

\* C33: while a task sleeps out the delay of its host, no task of another
\* host whose own delay has elapsed and which has a permit, or a free one to
\* take, is kept waiting for the limiter's lock.  It fails: limit() sleeps
\* inside "async with self._lock".
C33_SleepOutsideLock ==
    \A s, t \in Tasks :
        ~ /\ pc[s] = "delay_sleep"
          /\ now < wake[s]
          /\ pc[t] \in {"get_semaphore", "delay_lock"}
          /\ CanonicalHost(url[t]) # CanonicalHost(url[s])
          /\ WaitTime(host[t], delay[t]) = 0
          /\ pc[t] = "get_semaphore" =>
                 (host[t] \notin DOMAIN semaphores \/ semaphores[host[t]] > 0)


\* ======================================================================
\* SitemapDiscoverer._discover_from_sitemap, call by call (specification
\* SpecSitemap)
\* ======================================================================
\* The recursion of _discover_from_sitemap is kept as a stack of frames: the
\* location and depth of the call and the nested sitemaps its loop has still
\* to go through.  max_urls is None, so the loop over page_urls returns
\* nothing early; the pages are left out.  A location the site does not
\* serve makes _fetch_sitemap return None.
SitemapGraphs ==
    { "index.xml" :> <<"index.xml">>,
      ("a.xml" :> <<"b.xml">>) @@ ("b.xml" :> <<"a.xml", "gone.xml">>),
      "index.xml" :> <<"index.xml", "index.xml">>,
      ("index.xml" :> <<"c1.xml">>) @@ ("c1.xml" :> <<"c2.xml">>) @@ ("c2.xml" :> <<"c3.xml">>)
         @@ ("c3.xml" :> <<"c4.xml">>) @@ ("c4.xml" :> <<"c5.xml">>) @@ ("c5.xml" :> <<"c6.xml">>)
         @@ ("c6.xml" :> <<"c7.xml">>) @@ ("c7.xml" :> <<>>),
      ("index.xml" :> <<"pages.xml">>) @@ ("pages.xml" :> <<>>) }

\* The sitemap discovery starts from
SitemapStart(g) == IF "index.xml" \in DOMAIN g THEN "index.xml" ELSE "a.xml"

InitSitemap ==
    /\ ClientInit
    /\ adaptive
    /\ FetcherInit("idle", FALSE, FALSE)
    /\ ValidatorIdle
    /\ RobotsIdle
    /\ DiscoverIdle
    /\ DedupIdle
    /\ PagesIdle
    /\ FlushIdle
    /\ ScopeIdle
    /\ JsonIdle
    /\ CanonIdle
    /\ CrawlIdle
    /\ PoolIdle
    /\ sm_graph \in SitemapGraphs
    /\ sm_stack = <<>>
    /\ sm_log = <<>>
    /\ sm_pc = "start"

not_sitemap ==
    <<base_vars, validator_vars, robots_vars, discover_vars, dedup_vars, pages_vars, flush_vars,
      scope_vars, json_vars, canon_vars, cr_vars, bp_vars>>

\* Faulty variant: one level more is let through
DepthExceededOffByOne(depth) == depth > MAX_SITEMAP_DEPTH + 1
\* if depth > self.MAX_SITEMAP_DEPTH: return
DepthExceeded(depth) == depth > MAX_SITEMAP_DEPTH

SitemapCall(loc, depth, fetched) == [loc |-> loc, depth |-> depth, fetched |-> fetched]
SitemapFrame(loc, depth) == [loc |-> loc, depth |-> depth, todo |-> sm_graph[loc]]

\* The caller's frame once its loop has taken the next nested sitemap
CallerAdvanced ==
    [sm_stack EXCEPT ![Len(sm_stack)] = [@ EXCEPT !.todo = Tail(@)]]
NextNested == Head(sm_stack[Len(sm_stack)].todo)
NextDepth == sm_stack[Len(sm_stack)].depth + 1
InLoop == sm_pc = "running" /\ sm_stack # <<>> /\ sm_stack[Len(sm_stack)].todo # <<>>

\* discover(start_url) for a URL ending in .xml:
\* self._discover_from_sitemap(start_url, max_urls=max_urls)
SitemapBegin ==
    /\ sm_pc = "start"
    /\ sm_pc' = "running"
    /\ sm_log' = <<SitemapCall(SitemapStart(sm_graph), 0, TRUE)>>
    /\ sm_stack' = <<SitemapFrame(SitemapStart(sm_graph), 0)>>
    /\ UNCHANGED <<not_sitemap, sm_graph>>

\* The recursive call returns at once: the depth limit is exceeded
SitemapTruncate ==
    /\ InLoop
    /\ DepthExceeded(NextDepth)
    /\ sm_log' = Append(sm_log, SitemapCall(NextNested, NextDepth, FALSE))
    /\ sm_stack' = CallerAdvanced
    /\ UNCHANGED <<not_sitemap, sm_graph, sm_pc>>

\* The recursive call fetches and gets nothing: content is None
SitemapMissing ==
    /\ InLoop
    /\ ~DepthExceeded(NextDepth)
    /\ NextNested \notin DOMAIN sm_graph
    /\ sm_log' = Append(sm_log, SitemapCall(NextNested, NextDepth, TRUE))
    /\ sm_stack' = CallerAdvanced
    /\ UNCHANGED <<not_sitemap, sm_graph, sm_pc>>

\* The recursive call fetches a sitemap and goes through it
SitemapDescend ==
    /\ InLoop
    /\ ~DepthExceeded(NextDepth)
    /\ NextNested \in DOMAIN sm_graph
    /\ sm_log' = Append(sm_log, SitemapCall(NextNested, NextDepth, TRUE))
    /\ sm_stack' = Append(CallerAdvanced, SitemapFrame(NextNested, NextDepth))
    /\ UNCHANGED <<not_sitemap, sm_graph, sm_pc>>

\* The loop over nested_sitemaps is over: the call returns
SitemapReturn ==
    /\ sm_pc = "running"
    /\ sm_stack # <<>>
    /\ sm_stack[Len(sm_stack)].todo = <<>>
    /\ sm_stack' = SubSeq(sm_stack, 1, Len(sm_stack) - 1)
    /\ sm_pc' = IF Len(sm_stack) = 1 THEN "done" ELSE "running"
    /\ UNCHANGED <<not_sitemap, sm_graph, sm_log>>

NextSitemap ==
    \/ SitemapBegin
    \/ SitemapTruncate
    \/ SitemapMissing
    \/ SitemapDescend
    \/ SitemapReturn

\* The event loop keeps running the generator
SpecSitemap == InitSitemap /\ [][NextSitemap]_vars /\ WF_vars(NextSitemap)

\* C34: whatever the sitemaps list, indexes that list themselves or one
\* another included, no sitemap is fetched more than MAX_SITEMAP_DEPTH
\* levels below the one discovery started from, a call beyond that depth
\* returns without stopping the callers, and discovery comes to its end.
C34_SitemapTerminates ==
    /\ [](\A k \in DOMAIN sm_log : sm_log[k].fetched => sm_log[k].depth <= MAX_SITEMAP_DEPTH)
    /\ [](Len(sm_stack) <= MAX_SITEMAP_DEPTH + 1)
    /\ <>(sm_pc = "done")
\* An index that lists itself was fetched down to depth 5, the call at depth
\* 6 returned without a fetch, and discovery ended
C34_Witness ==
    /\ sm_pc = "done"
    /\ sm_graph = ("index.xml" :> <<"index.xml">>)
    /\ Len(sm_log) = 7
    /\ sm_log[6] = SitemapCall("index.xml", 5, TRUE)
    /\ sm_log[7] = SitemapCall("index.xml", 6, FALSE)


\* ======================================================================
\* LinkCrawler.discover, step by step (specification SpecCrawl)
\* ======================================================================
\* The breadth-first loop with its queue, one page fetch and one link at a
\* time.  max_urls is None; the link extractor is the built-in one, so the
\* page of a queued URL is requested by _fetch_page, and a URL the site has
\* no page for makes _fetch_page return None.
MaxCrawlDepth == 2

LinkAUpper == PageUrl(<<"docs", ".", "EXAMPLE", ".", "com">>, <<"a">>, "")

\* Link graphs: two cycles through the seed, a seed robots.txt may disallow,
\* a seed the validator rejects.
CrawlSites ==
    { [seed |-> StartUrl,
       links |-> (StartUrl :> <<PageA, PageB>>) @@ (PageA :> <<StartUrl, PageB, PagePrivate>>)
                    @@ (PageB :> <<LinkAUpper, PageA, PageLocal>>)],
      [seed |-> StartUrl,
       links |-> (StartUrl :> <<PageA, PageA, PageB>>) @@ (PageA :> <<PageB, StartUrl>>)],
      [seed |-> PagePrivate,
       links |-> (PagePrivate :> <<PageA>>) @@ (PageA :> <<PagePrivate, PageB>>)],
      [seed |-> PageLocal,
       links |-> PageLocal :> <<PageLocal, StartUrl>>] }

CrawlConfigs ==
    { [seed |-> s.seed, links |-> s.links, robots |-> r, max_depth |-> d] :
        s \in CrawlSites, r \in SiteRobots, d \in 0..MaxCrawlDepth }

InitCrawl ==
    /\ ClientInit
    /\ adaptive
    /\ FetcherInit("idle", FALSE, FALSE)
    /\ ValidatorIdle
    /\ RobotsIdle
    /\ DiscoverIdle
    /\ DedupIdle
    /\ PagesIdle
    /\ FlushIdle
    /\ ScopeIdle
    /\ JsonIdle
    /\ CanonIdle
    /\ SitemapIdle
    /\ PoolIdle
    /\ cr_cfg \in CrawlConfigs
    /\ cr_queue = <<>>
    /\ cr_seen = {}
    /\ cr_out = <<>>
    /\ cr_fetched = <<>>
    /\ cr_links = <<>>
    /\ cr_depth = 0
    /\ cr_pc = "start"

not_crawl ==
    <<base_vars, validator_vars, robots_vars, discover_vars, dedup_vars, pages_vars, flush_vars,
      scope_vars, json_vars, canon_vars, sm_vars, bp_vars>>

Queued(u, depth) == [url |-> u, depth |-> depth]

\* Faulty variant: a page at the depth limit is still crawled
DepthReachedStrict(depth, limit) == depth > limit
\* if depth >= effective_max_depth: continue
DepthReached(depth, limit) == depth >= limit

\* discover up to the while loop: the seed is queued and marked seen, and
\* yielded if it should be crawled
CrawlBegin ==
    /\ cr_pc = "start"
    /\ cr_pc' = "queue"
    /\ cr_queue' = <<Queued(cr_cfg.seed, 0)>>
    /\ cr_seen' = {NormalizeUrl(cr_cfg.seed)}
    /\ cr_out' = IF ShouldCrawl(cr_cfg, cr_cfg.seed, cr_cfg.seed)
                 THEN <<Queued(cr_cfg.seed, 0)>> ELSE <<>>
    /\ UNCHANGED <<not_crawl, cr_cfg, cr_fetched, cr_links, cr_depth>>

\* queue.popleft() of an entry at the depth limit
CrawlSkipDeep ==
    /\ cr_pc = "queue" /\ cr_queue # <<>>
    /\ DepthReached(Head(cr_queue).depth, cr_cfg.max_depth)
    /\ cr_queue' = Tail(cr_queue)
    /\ UNCHANGED <<not_crawl, cr_cfg, cr_seen, cr_out, cr_fetched, cr_links, cr_depth, cr_pc>>

\* queue.popleft(), and _fetch_page returns None
CrawlFetchFails ==
    /\ cr_pc = "queue" /\ cr_queue # <<>>
    /\ ~DepthReached(Head(cr_queue).depth, cr_cfg.max_depth)
    /\ Head(cr_queue).url \notin DOMAIN cr_cfg.links
    /\ cr_queue' = Tail(cr_queue)
    /\ cr_fetched' = Append(cr_fetched, Head(cr_queue).url)
    /\ UNCHANGED <<not_crawl, cr_cfg, cr_seen, cr_out, cr_links, cr_depth, cr_pc>>

\* queue.popleft(), _fetch_page and _extract_links
CrawlFetch ==
    /\ cr_pc = "queue" /\ cr_queue # <<>>
    /\ ~DepthReached(Head(cr_queue).depth, cr_cfg.max_depth)
    /\ Head(cr_queue).url \in DOMAIN cr_cfg.links
    /\ cr_queue' = Tail(cr_queue)
    /\ cr_fetched' = Append(cr_fetched, Head(cr_queue).url)
    /\ cr_links' = ExtractLinks(cr_cfg, Head(cr_queue).url)
    /\ cr_depth' = Head(cr_queue).depth
    /\ cr_pc' = "links"
    /\ UNCHANGED <<not_crawl, cr_cfg, cr_seen, cr_out>>

\* One iteration of the loop over links
CrawlLink ==
    /\ cr_pc = "links" /\ cr_links # <<>>
    /\ cr_links' = Tail(cr_links)
    /\ cr_seen' = cr_seen \cup {NormalizeUrl(Head(cr_links))}
    /\ IF SeenAdd(cr_seen, Head(cr_links)) /\ ShouldCrawl(cr_cfg, cr_cfg.seed, Head(cr_links))
       THEN /\ cr_out' = Append(cr_out, Queued(Head(cr_links), cr_depth + 1))
            /\ cr_queue' = IF cr_depth + 1 < cr_cfg.max_depth
                           THEN Append(cr_queue, Queued(Head(cr_links), cr_depth + 1))
                           ELSE cr_queue
       ELSE UNCHANGED <<cr_out, cr_queue>>
    /\ UNCHANGED <<not_crawl, cr_cfg, cr_fetched, cr_depth, cr_pc>>

\* The links of the page are through: back to the while loop
CrawlLinksDone ==
    /\ cr_pc = "links" /\ cr_links = <<>>
    /\ cr_pc' = "queue"
    /\ UNCHANGED <<not_crawl, cr_cfg, cr_queue, cr_seen, cr_out, cr_fetched, cr_links, cr_depth>>

\* The queue is empty: "Crawl complete"
CrawlEnd ==
    /\ cr_pc = "queue" /\ cr_queue = <<>>
    /\ cr_pc' = "done"
    /\ UNCHANGED <<not_crawl, cr_cfg, cr_queue, cr_seen, cr_out, cr_fetched, cr_links, cr_depth>>

NextCrawl ==
    \/ CrawlBegin
    \/ CrawlSkipDeep
    \/ CrawlFetchFails
    \/ CrawlFetch
    \/ CrawlLink
    \/ CrawlLinksDone
    \/ CrawlEnd

\* The event loop keeps running the generator
SpecCrawl == InitCrawl /\ [][NextCrawl]_vars /\ WF_vars(NextCrawl)

C36_FetchedPassGates ==
    \A k \in DOMAIN cr_fetched : IsValid(cr_fetched[k]) /\ RobotsAllows(cr_cfg, cr_fetched[k])


\* C37: a task sleeping for the retry backoff after a retryable status holds
\* no permit of its host: when no other task is inside a limit() scope of the
\* host, all the host's permits are free during that sleep.  It fails: the
\* sleep is inside the async with of limit(url).
C37_BackoffHoldsNoPermit ==
    \A t \in Tasks :
        ( /\ pc[t] = "backoff"
          /\ host[t] \in DOMAIN semaphores
          /\ \A w \in Tasks \ {t} : ~(HoldsPermit(w) /\ host[w] = host[t]) )
            => semaphores[host[t]] = ConfigConcurrent(host_configs, host[t])


\* C38: the events collected during one pipeline execution hold at most one
\* fetch_failed event.  It fails: a step that raises has emitted its own
\* fetch_failed before the pipeline's except clause emits another.
C38_OneFetchFailed ==
    \A j, k \in DOMAIN collected :
        (collected[j].type = "fetch_failed" /\ collected[k].type = "fetch_failed") => j = k


\* C39: a page is skipped as a duplicate of U only if the page of U was
\* saved in this run.  It fails: DedupStep registers the content under U
\* before the save step of U runs, and a failed save takes nothing back.
C39_DuplicateOfSaved ==
    \A k \in DOMAIN events :
        events[k].type = "page_deduplicated" => events[k].duplicate_of \in saved_files


\* ======================================================================
\* BrowserContextPool and BrowserContextManager (concurrency/browser_pool.py,
\* specification SpecPool)
\* ======================================================================
\* The pool has been entered: max_contexts contexts are in the queue and the
\* semaphore has as many permits.  Each acquirer runs
\* "async with pool.acquire() as page" again and again.  _get_context takes a
\* permit and then a context; with a permit in hand the queue is never
\* empty, so the two awaits are one step.
NumAcquirers == 3
MaxPoolSize == 3

Acquirers == 1..NumAcquirers
MaxContexts == 1..MaxPoolSize
Contexts(n) == [k \in 1..n |-> k]

InitPool ==
    /\ ClientInit
    /\ adaptive
    /\ FetcherInit("idle", FALSE, FALSE)
    /\ ValidatorIdle
    /\ RobotsIdle
    /\ DiscoverIdle
    /\ DedupIdle
    /\ PagesIdle
    /\ FlushIdle
    /\ ScopeIdle
    /\ JsonIdle
    /\ CanonIdle
    /\ SitemapIdle
    /\ CrawlIdle
    /\ bp_max \in MaxContexts
    /\ bp_sem = bp_max
    /\ bp_idle = Contexts(bp_max)
    /\ bp_pc = [a \in Acquirers |-> "out"]
    /\ bp_ctx = [a \in Acquirers |-> None]

not_pool ==
    <<base_vars, validator_vars, robots_vars, discover_vars, dedup_vars, pages_vars, flush_vars,
      scope_vars, json_vars, canon_vars, sm_vars, cr_vars>>

\* BrowserContextManager.__aenter__, first line:
\* self._context = await self._pool._get_context()
PoolGetContext(a) ==
    /\ bp_pc[a] = "out"
    /\ bp_sem > 0
    /\ bp_sem' = bp_sem - 1
    /\ bp_idle' = Tail(bp_idle)
    /\ bp_ctx' = [bp_ctx EXCEPT ![a] = Some(Head(bp_idle))]
    /\ bp_pc' = [bp_pc EXCEPT ![a] = "taken"]
    /\ UNCHANGED <<not_pool, bp_max>>

\* self._page = await self._context.new_page(); return self._page
PoolNewPage(a) ==
    /\ bp_pc[a] = "taken"
    /\ bp_pc' = [bp_pc EXCEPT ![a] = "in"]
    /\ UNCHANGED <<not_pool, bp_max, bp_sem, bp_idle, bp_ctx>>

\* new_page raises: __aenter__ raises, so the async with statement never
\* calls __aexit__, and the manager object goes with what it holds
PoolNewPageFails(a) ==
    /\ bp_pc[a] = "taken"
    /\ bp_pc' = [bp_pc EXCEPT ![a] = "out"]
    /\ bp_ctx' = [bp_ctx EXCEPT ![a] = None]
    /\ UNCHANGED <<not_pool, bp_max, bp_sem, bp_idle>>

\* The body ends or raises: __aexit__ closes the page
PoolClosePage(a) ==
    /\ bp_pc[a] = "in"
    /\ bp_pc' = [bp_pc EXCEPT ![a] = "closing"]
    /\ UNCHANGED <<not_pool, bp_max, bp_sem, bp_idle, bp_ctx>>

\* __aexit__: _return_context puts the context back and releases the permit
PoolReturnContext(a) ==
    /\ bp_pc[a] = "closing"
    /\ bp_pc' = [bp_pc EXCEPT ![a] = "out"]
    /\ bp_idle' = Append(bp_idle, bp_ctx[a][1])
    /\ bp_sem' = bp_sem + 1
    /\ bp_ctx' = [bp_ctx EXCEPT ![a] = None]
    /\ UNCHANGED <<not_pool, bp_max>>

NextPool ==
    \/ \E a \in Acquirers : PoolGetContext(a)
    \/ \E a \in Acquirers : PoolNewPage(a)
    \/ \E a \in Acquirers : PoolNewPageFails(a)
    \/ \E a \in Acquirers : PoolClosePage(a)
    \/ \E a \in Acquirers : PoolReturnContext(a)

SpecPool == InitPool /\ [][NextPool]_vars

\* The acquirers that hold a context
Holders == {a \in Acquirers : bp_ctx[a] # None}

\* C40: at most max_contexts contexts are held, no context is held by two
\* acquirers, and the idle and the held contexts add up to max_contexts, so
\* that with nobody holding a context every permit is free.  It fails: when
\* new_page raises, the context and the permit already taken are never
\* given back.
C40_PoolConserved ==
    /\ Cardinality(Holders) <= bp_max
    /\ \A a, b \in Holders : bp_ctx[a] = bp_ctx[b] => a = b
    /\ Len(bp_idle) + Cardinality(Holders) = bp_max
    /\ bp_sem = Len(bp_idle)

====
